---- MODULE Spec2Model ----
(***************************************************************************)
(* Follow-up orchestration engine of backend/server.js: the lowdb store    *)
(* shared by the sequence step scheduler (processSequenceSteps), the       *)
(* cadence scheduler (processFollowUps), sequence enrollment and reply     *)
(* ingestion (checkGmailReplies / checkEmailReplies).                      *)
(*                                                                         *)
(* The store is the lowdb singleton: `disk` is db.json, `mem` is db.data.  *)
(* db.read() replaces db.data by a fresh parse of the file, so every       *)
(* object a suspended task still holds becomes detached: writes through it *)
(* no longer reach db.data.  `views` records, per task, whether the lead   *)
(* objects it holds are still the ones of db.data (att) and, once they are *)
(* not, their contents.  db.read() and db.write() are taken as atomic at   *)
(* the call.  One action runs a handler from one await to the next.        *)
(***************************************************************************)
EXTENDS Integers, Sequences, FiniteSets, TLC

\* ------------------------------------------------------------------ bounds
NumLeads == 2
MaxTime == 2
MaxSweeps == 2
MaxEnrolls == 2
MaxMsgs == 2
MaxChecks == 2
MaxApprovals == 2
MaxAbCount == 11
MaxWinning == 101
MaxOtherWinning == 1

Leads == 1..NumLeads
Seqs == {1, 2}
NoTime == -1

\* Sequence configuration (db.data.sequence_steps, read-only during scheduling):
\* delay_days of each step, in clock ticks. Sequence 1: step 1 at once, step 2
\* after one tick. Sequence 2: a single step after one tick.
SeqSteps == << <<0, 1>>, <<1>> >>

\* delay_unit of each step. Step 1 of sequence 1 has none, which reads as
\* 'days'; the other steps count minutes. A clock tick is one minute.
SeqUnits == << <<"days", "minutes">>, <<"minutes">> >>

\* The length of a day in clock ticks, scaled down to fit the clock.
DayTicks == 2

\* The divisor that converts the time since the last send into a step's unit.
UnitTicks(unit) == IF unit = "minutes" THEN 1 ELSE DayTicks
StepCount(s) == Len(SeqSteps[s])

Intents == {"INTERESTED", "NOT_NOW", "OBJECTION", "GHOSTING", "DEAD"}
NoIntent == "null"

SqIds == {"sq1", "sq2"}
\* Mailbox checks in progress: the model follows up to two at a time.
GmIds == {"gm1", "gm2"}
TaskIds == SqIds \cup GmIds \cup {"en", "fu", "ds", "hs"}

VARIABLES
  now,            \* Date.now(), in ticks
  disk,           \* db.json
  mem,            \* db.data
  views,          \* per task: the lead objects it holds
  cfg,            \* the owner's users / email_settings rows
  seqProcessing,  \* _sequenceProcessing
  sq,             \* processSequenceSteps invocations
  en,             \* POST /api/sequences/:id/enroll in flight
  fu,             \* processFollowUps in flight
  sqCalls,        \* processSequenceSteps invocations made
  fuCalls,        \* processFollowUps invocations made
  enrolls,        \* number of enrollment requests made
  outbox,         \* emails the transport accepted: sequence steps per lead
  fuSent,         \* follow-ups processFollowUps handed to sendEmail, per lead
  fuDrafted,      \* follow-up drafts processFollowUps created, per lead
  inbox,          \* the owner's mailbox: the sender of each inbound message
  gm,             \* reply ingestion (checkGmailReplies / checkEmailReplies) in flight
  gmCalls,        \* number of mailbox checks made
  autoReplies,    \* replies that ingestion sent automatically, in order
  ds,             \* POST /api/drafts/:id/send in flight
  approved,       \* follow-up drafts sent through POST /api/drafts/:id/send, per lead
  hs,             \* the owner's send request in flight (initial email, bulk send, template)
  fuSentAt,       \* when processFollowUps last sent a follow-up, per lead
  call            \* a function call under examination: its arguments and its result

vars == <<now, disk, mem, views, cfg, seqProcessing, sq, en, fu, sqCalls, fuCalls, enrolls,
         outbox, fuSent, fuDrafted, inbox, gm, gmCalls, autoReplies, ds, approved, hs, fuSentAt, call>>

\* ------------------------------------------------------------------- store
NewLead ==
  [ enrolled_sequence_id  |-> 0,
    sequence_current_step |-> 0,
    sequence_last_sent    |-> NoTime,
    sequence_completed    |-> FALSE,
    sequence_paused       |-> FALSE,
    ai_intent             |-> NoIntent,
    status                |-> "new",
    follow_up_count       |-> 0,
    last_email_sent_date  |-> NoTime,
    initial_email_sent    |-> FALSE,
    follow_up_paused      |-> FALSE,
    auto_send_enabled     |-> TRUE,
    clarification_count   |-> 0 ]

\* A lead after POST /api/leads/:id/send-initial-email.
ContactedLead ==
  [NewLead EXCEPT !.status = "contacted", !.initial_email_sent = TRUE,
                  !.last_email_sent_date = 0]

EmptyStore ==
  [ leads  |-> [l \in Leads |-> ContactedLead],
    active |-> [s \in Seqs |-> TRUE],
    inter  |-> {},
    drafts |-> <<>>,
    threads |-> <<>>,
    history |-> [l \in Leads |-> 0] ]

IdleView == [att |-> FALSE, leads |-> [l \in Leads |-> NewLead]]

\* No owner send request in flight.
HsIdle ==
  [pc |-> "idle", route |-> "none", q |-> <<>>, lead |-> 0, draft |-> 0, stale |-> FALSE]

\* No call under examination.
NoCall == [fn |-> "none"]

\* db.read(): every object held by a task stops being part of db.data.
DetachAll(v, m) ==
  [t \in TaskIds |-> IF v[t].att THEN [att |-> FALSE, leads |-> m.leads] ELSE v[t]]

\* After its own db.read() a task holds objects of the new db.data.
Attach(v, m, t) == [DetachAll(v, m) EXCEPT ![t] = [att |-> TRUE, leads |-> IdleView.leads]]

\* The lead object a task holds: the one of db.data while attached.
Ref(m, vw, l) == IF vw.att THEN m.leads[l] ELSE vw.leads[l]

\* The leads of S in the order of db.data.leads (Array.prototype.filter).
RECURSIVE LeadsFrom(_, _)
LeadsFrom(k, S) ==
  IF k > NumLeads THEN <<>>
  ELSE (IF k \in S THEN <<k>> ELSE <<>>) \o LeadsFrom(k + 1, S)

\* ------------------------------------------------- sequence step scheduler
\* "Check if ALL leads in this sequence are now completed -> auto-deactivate".
DeactivateIfAllCompleted(m, s) ==
  LET enrolled == {x \in Leads : m.leads[x].enrolled_sequence_id = s} IN
  IF s \in Seqs /\ enrolled # {} /\ (\A x \in enrolled : m.leads[x].sequence_completed)
     /\ m.active[s]
  THEN [m EXCEPT !.active[s] = FALSE]
  ELSE m

\* Data-integrity clamp: the cursor is at or past the last step.
MarkCompleted(m, l, s) ==
  DeactivateIfAllCompleted([m EXCEPT !.leads[l].sequence_completed = TRUE], s)

\* The enrolledLeads filter of a sweep.
SeqEligible(r) ==
  /\ r.enrolled_sequence_id # 0
  /\ r.sequence_completed = FALSE
  /\ ~r.sequence_paused
  /\ r.sequence_last_sent # NoTime

\* The delay of step k of sequence s in clock ticks.
StepDelay(s, k) == SeqSteps[s][k] * UnitTicks(SeqUnits[s][k])

\* Not (elapsed < nextStep.delay_days), where elapsed is the time since
\* sequence_last_sent divided by the unit of the step; `now` is taken once at
\* the start of the sweep.
StepDue(r, s, k, now0) == ~(now0 - r.sequence_last_sent < StepDelay(s, k + 1))

\* The for-loop of a sweep from its current lead up to the next await
\* sendEmail (send = TRUE) or the end of the list (send = FALSE).
RECURSIVE SqLoop(_, _, _, _)
SqLoop(m, vw, q, now0) ==
  IF q = <<>> THEN [mem |-> m, q |-> q, send |-> FALSE, lead |-> 0, seq |-> 0, idx |-> 0]
  ELSE
    LET l == Head(q)
        r == Ref(m, vw, l)
        s == r.enrolled_sequence_id
        k == r.sequence_current_step
    IN  IF ~m.active[s] THEN SqLoop(m, vw, Tail(q), now0)
        ELSE IF k >= StepCount(s) THEN SqLoop(MarkCompleted(m, l, s), vw, Tail(q), now0)
        ELSE IF ~StepDue(r, s, k, now0) THEN SqLoop(m, vw, Tail(q), now0)
        ELSE IF ~cfg.gmail THEN SqLoop(m, vw, Tail(q), now0)
        ELSE [mem |-> m, q |-> Tail(q), send |-> TRUE, lead |-> l, seq |-> s, idx |-> k]

SqIdle == [pc |-> "idle", q |-> <<>>, lead |-> 0, seq |-> 0, idx |-> 0, now0 |-> 0]

\* The guard without its test: every invocation passes.
SeqGuardNever == FALSE

\* if (_sequenceProcessing) return;
SeqGuardBusy == seqProcessing

\* A sweep without its finally block: the lock stays set when the sweep ends.
SqAfterLoopLocked(i, res, vs, now0) ==
  IF res.send
  THEN /\ sq' = [sq EXCEPT ![i] = [pc |-> "sending", q |-> res.q, lead |-> res.lead,
                                   seq |-> res.seq, idx |-> res.idx, now0 |-> now0]]
       /\ mem' = res.mem
       /\ views' = vs
       /\ disk' = disk
       /\ seqProcessing' = TRUE
  ELSE /\ sq' = [sq EXCEPT ![i] = [SqIdle EXCEPT !.pc = "done"]]
       /\ mem' = res.mem
       /\ disk' = res.mem
       /\ views' = [vs EXCEPT ![i] = IdleView]
       /\ seqProcessing' = TRUE

\* The state after the loop stopped at res: suspended in sendEmail, or
\* finished (db.write(), then the finally block).
SqAfterLoop(i, res, vs, now0) ==
  IF res.send
  THEN /\ sq' = [sq EXCEPT ![i] = [pc |-> "sending", q |-> res.q, lead |-> res.lead,
                                   seq |-> res.seq, idx |-> res.idx, now0 |-> now0]]
       /\ mem' = res.mem
       /\ views' = vs
       /\ disk' = disk
       /\ seqProcessing' = TRUE
  ELSE /\ sq' = [sq EXCEPT ![i] = [SqIdle EXCEPT !.pc = "done"]]
       /\ mem' = res.mem
       /\ disk' = res.mem
       /\ views' = [vs EXCEPT ![i] = IdleView]
       /\ seqProcessing' = FALSE

\* An invocation that finds the lock taken returns at once.
SqSkip(i) ==
  /\ sq[i].pc \in {"idle", "done", "skipped"}
  /\ sqCalls < MaxSweeps
  /\ SeqGuardBusy
  /\ sq' = [sq EXCEPT ![i] = [SqIdle EXCEPT !.pc = "skipped"]]
  /\ sqCalls' = sqCalls + 1
  /\ UNCHANGED <<now, disk, mem, views, cfg, seqProcessing, en, fu, fuCalls, enrolls, outbox,
                 fuSent, fuDrafted,
                 inbox, gm, gmCalls, autoReplies, ds, approved, hs, fuSentAt, call>>

\* processSequenceSteps() up to its first await sendEmail.
SqStart(i) ==
  /\ sq[i].pc \in {"idle", "done", "skipped"}
  /\ sqCalls < MaxSweeps
  /\ ~SeqGuardBusy
  /\ sqCalls' = sqCalls + 1
  /\ LET m1  == disk
         vs  == Attach(views, mem, i)
         q   == LeadsFrom(1, {l \in Leads : SeqEligible(m1.leads[l])})
         res == SqLoop(m1, vs[i], q, now)
     IN  SqAfterLoop(i, res, vs, now)
  /\ UNCHANGED <<now, cfg, en, fu, fuCalls, enrolls, outbox, fuSent, fuDrafted,
                 inbox, gm, gmCalls, autoReplies, ds, approved, hs, fuSentAt, call>>

\* "Advance the lead to the next step", after sendEmail returned.
SqAdvance(m, vw, l, s, k) ==
  LET m1 == [m EXCEPT !.inter = @ \cup {<<l, s, k + 1>>},
                      !.leads[l].sequence_current_step = k + 1,
                      !.leads[l].sequence_last_sent = now,
                      !.leads[l].last_email_sent_date = now]
  IN  IF k + 1 >= StepCount(s)
      THEN LET m2 == [m1 EXCEPT !.leads[l].sequence_completed = TRUE]
           IN  DeactivateIfAllCompleted(m2, Ref(m2, vw, l).enrolled_sequence_id)
      ELSE m1

\* A sweep whose loop ends at the first sendEmail that throws.
SqSendDoneAbort(i, ok) ==
  /\ sq[i].pc = "sending"
  /\ LET l   == sq[i].lead
         s   == sq[i].seq
         k   == sq[i].idx
         m1  == IF ok THEN SqAdvance(mem, views[i], l, s, k) ELSE mem
         res == SqLoop(m1, views[i], IF ok THEN sq[i].q ELSE <<>>, sq[i].now0)
     IN  /\ SqAfterLoop(i, res, views, sq[i].now0)
         /\ outbox' = IF ok THEN [outbox EXCEPT ![<<l, s, k + 1>>] = @ + 1] ELSE outbox
  /\ UNCHANGED <<now, cfg, en, fu, sqCalls, fuCalls, enrolls, fuSent, fuDrafted,
                 inbox, gm, gmCalls, autoReplies, ds, approved, hs, fuSentAt, call>>

\* sendEmail returned (ok) or threw (~ok); the sweep goes on to the next await.
SqSendDone(i, ok) ==
  /\ sq[i].pc = "sending"
  /\ LET l   == sq[i].lead
         s   == sq[i].seq
         k   == sq[i].idx
         m1  == IF ok THEN SqAdvance(mem, views[i], l, s, k) ELSE mem
         res == SqLoop(m1, views[i], sq[i].q, sq[i].now0)
     IN  /\ SqAfterLoop(i, res, views, sq[i].now0)
         /\ outbox' = IF ok THEN [outbox EXCEPT ![<<l, s, k + 1>>] = @ + 1] ELSE outbox
  /\ UNCHANGED <<now, cfg, en, fu, sqCalls, fuCalls, enrolls, fuSent, fuDrafted,
                 inbox, gm, gmCalls, autoReplies, ds, approved, hs, fuSentAt, call>>

\* processSequenceSteps() whose db.read() rejects: the lock is taken, then the
\* outer catch and the finally block run.
SqReadStart(i) ==
  /\ sq[i].pc \in {"idle", "done", "skipped"}
  /\ sqCalls < MaxSweeps
  /\ ~SeqGuardBusy
  /\ sqCalls' = sqCalls + 1
  /\ seqProcessing' = TRUE
  /\ sq' = [sq EXCEPT ![i] = [SqIdle EXCEPT !.pc = "reading"]]
  /\ UNCHANGED <<now, disk, mem, views, cfg, en, fu, fuCalls, enrolls, outbox, fuSent,
                 fuDrafted, inbox, gm, gmCalls, autoReplies, ds, approved, hs, fuSentAt,
                 call>>

SqReadThrows(i) ==
  /\ sq[i].pc = "reading"
  /\ seqProcessing' = FALSE
  /\ sq' = [sq EXCEPT ![i] = [SqIdle EXCEPT !.pc = "done"]]
  /\ UNCHANGED <<now, disk, mem, views, cfg, en, fu, sqCalls, fuCalls, enrolls, outbox,
                 fuSent, fuDrafted, inbox, gm, gmCalls, autoReplies, ds, approved, hs,
                 fuSentAt, call>>

\* ---------------------------------------------------------------- enrollment
OutboxKeys == Leads \X Seqs \X (1..2)

\* outbox counts per enrollment: enrolling a lead starts its count afresh.
OutboxReset(ob, L) == [k \in OutboxKeys |-> IF k[1] \in L THEN 0 ELSE ob[k]]
\* done and failed are the handler's results.success (of leads whose step 1
\* went out) and results.failed; an idle handler shows its last response.
EnIdle == [pc |-> "idle", seq |-> 0, q |-> <<>>, lead |-> 0, done |-> {}, failed |-> {}]

\* Step 1 was sent: "Track sequence state".
EnrollSent(m, l, s) ==
  [m EXCEPT !.inter = @ \cup {<<l, s, 1>>},
            !.leads[l].enrolled_sequence_id = s,
            !.leads[l].sequence_current_step = 1,
            !.leads[l].sequence_last_sent = now,
            !.leads[l].last_email_sent_date = now,
            !.leads[l].sequence_completed = (StepCount(s) <= 1)]

\* Step 1 has a delay: the scheduler will send it.
EnrollDelayed(m, l, s) ==
  [m EXCEPT !.leads[l].enrolled_sequence_id = s,
            !.leads[l].sequence_current_step = 0,
            !.leads[l].sequence_last_sent = now,
            !.leads[l].sequence_completed = FALSE]

\* The for-loop of the handler where no await occurs (delayed step 1, or no
\* Gmail settings so that sendEmail is not called).
RECURSIVE EnrollSync(_, _, _)
EnrollSync(m, q, s) ==
  IF q = <<>> THEN m
  ELSE EnrollSync(IF SeqSteps[s][1] > 0 THEN EnrollDelayed(m, Head(q), s)
                  ELSE EnrollSent(m, Head(q), s), Tail(q), s)

\* The end of the handler: deactivate a fully completed sequence, db.write().
EnFinish(m, s, vs, done, failed) ==
  LET m1 == DeactivateIfAllCompleted(m, s) IN
  /\ mem' = m1
  /\ disk' = m1
  /\ en' = [EnIdle EXCEPT !.done = done, !.failed = failed]
  /\ views' = [vs EXCEPT !["en"] = IdleView]

\* POST /api/sequences/:id/enroll with lead_ids = ids, up to the first await.
EnrollStart(s, ids) ==
  /\ en.pc = "idle"
  /\ enrolls < MaxEnrolls
  /\ enrolls' = enrolls + 1
  /\ LET m1 == [disk EXCEPT !.active[s] = TRUE]
         vs == Attach(views, mem, "en")
         q  == LeadsFrom(1, ids)
     IN  IF SeqSteps[s][1] > 0 \/ ~cfg.gmail
         THEN /\ EnFinish(EnrollSync(m1, q, s), s, vs, {}, {})
              /\ outbox' = OutboxReset(outbox, ids)
         ELSE /\ mem' = m1
              /\ disk' = disk
              /\ views' = vs
              /\ en' = [pc |-> "sending", seq |-> s, q |-> Tail(q), lead |-> Head(q),
                        done |-> {}, failed |-> {}]
              /\ outbox' = outbox
  /\ UNCHANGED <<now, cfg, seqProcessing, sq, fu, sqCalls, fuCalls, fuSent, fuDrafted,
                 inbox, gm, gmCalls, autoReplies, ds, approved, hs, fuSentAt, call>>

\* sendEmail of step 1 returned (ok) or threw (~ok).
EnrollSendDone(ok) ==
  /\ en.pc = "sending"
  /\ LET l  == en.lead
         s  == en.seq
         m1 == IF ok THEN EnrollSent(mem, l, s) ELSE mem
         dn == IF ok THEN en.done \cup {l} ELSE en.done
         fl == IF ok THEN en.failed ELSE en.failed \cup {l}
     IN  /\ IF en.q = <<>>
            THEN EnFinish(m1, s, views, dn, fl)
            ELSE /\ mem' = m1
                 /\ disk' = disk
                 /\ views' = views
                 /\ en' = [en EXCEPT !.q = Tail(@), !.lead = Head(en.q),
                                     !.done = dn, !.failed = fl]
         /\ outbox' = IF ok THEN [OutboxReset(outbox, {l}) EXCEPT ![<<l, s, 1>>] = 1]
                       ELSE outbox
  /\ UNCHANGED <<now, cfg, seqProcessing, sq, fu, sqCalls, fuCalls, enrolls, fuSent, fuDrafted,
                 inbox, gm, gmCalls, autoReplies, ds, approved, hs, fuSentAt, call>>

\* POST /api/leads/:id/stop-sequence.
StopSequence(l) ==
  /\ disk.leads[l].enrolled_sequence_id # 0
  /\ LET m1 == [disk EXCEPT !.leads[l].sequence_paused = TRUE,
                            !.leads[l].sequence_completed = TRUE]
     IN  /\ mem' = m1
         /\ disk' = m1
         /\ views' = DetachAll(views, mem)
  /\ UNCHANGED <<now, cfg, seqProcessing, sq, en, fu, sqCalls, fuCalls, enrolls, outbox,
                 fuSent, fuDrafted, inbox, gm, gmCalls, autoReplies, ds, approved, hs,
                 fuSentAt, call>>

\* ------------------------------------------------------- cadence scheduler
\* user.per_intent_settings (POST /api/settings/follow-up-rules): the shape of
\* defaultRules, with delays in clock ticks.
FollowUpRules ==
  [ INTERESTED |-> [delay |-> 1, max_attempts |-> 2, after_max |-> "review"],
    NOT_NOW    |-> [delay |-> 1, max_attempts |-> 2, after_max |-> "GHOSTING"],
    OBJECTION  |-> [delay |-> 1, max_attempts |-> 2, after_max |-> "review"],
    GHOSTING   |-> [delay |-> 1, max_attempts |-> 2, after_max |-> "DEAD"],
    DEAD       |-> [delay |-> 1, max_attempts |-> 1, after_max |-> "closed_by_system"] ]

\* lead.ai_intent || 'GHOSTING'
GoverningIntent(r) == IF r.ai_intent = NoIntent THEN "GHOSTING" ELSE r.ai_intent

\* rules.after_max.toLowerCase()
LowerCase(x) ==
  CASE x = "INTERESTED" -> "interested"
    [] x = "NOT_NOW"    -> "not_now"
    [] x = "OBJECTION"  -> "objection"
    [] x = "GHOSTING"   -> "ghosting"
    [] x = "DEAD"       -> "dead"
    [] OTHER            -> x

\* "Skip leads currently in an active (non-paused) sequence".
ClaimedBySequence(r) ==
  r.enrolled_sequence_id # 0 /\ r.sequence_completed = FALSE /\ ~r.sequence_paused

\* The skip conditions of the loop over userLeads, before the delay check.
FuSkips(r) ==
  \/ (~r.initial_email_sent /\ r.last_email_sent_date = NoTime)
  \/ r.status \in {"customer", "closed_by_system"}
  \/ r.follow_up_paused
  \/ ClaimedBySequence(r)
  \/ /\ r.enrolled_sequence_id # 0 /\ r.sequence_completed /\ r.sequence_last_sent # NoTime
     /\ now - r.sequence_last_sent < FollowUpRules[GoverningIntent(r)].delay

\* msSinceLastEmail >= delayMs
FuDue(r) ==
  now - (IF r.last_email_sent_date # NoTime THEN r.last_email_sent_date ELSE 0)
    >= FollowUpRules[GoverningIntent(r)].delay

\* "Max attempts reached - apply after_max action", on the live lead.
ApplyAfterMax(m, l, am) ==
  LET m1 == IF am \in {"review", "closed_by_system"}
            THEN [m EXCEPT !.leads[l].status = am]
            ELSE [m EXCEPT !.leads[l].ai_intent = am, !.leads[l].status = LowerCase(am)]
  IN  [m1 EXCEPT !.leads[l].follow_up_count = 0]

\* The loop over userLeads from its current lead up to the next await
\* generateFollowUpEmail (gen = TRUE) or the end of the list; maxed collects
\* the leads that went through the after_max branch on the way.
RECURSIVE FuLoop(_, _, _)
FuLoop(m, vw, q) ==
  IF q = <<>> THEN [mem |-> m, q |-> q, gen |-> FALSE, lead |-> 0, count |-> 0,
                    intent |-> NoIntent, maxed |-> {}]
  ELSE
    LET l == Head(q)
        r == Ref(m, vw, l)
        rule == FollowUpRules[GoverningIntent(r)]
    IN  IF FuSkips(r) \/ ~FuDue(r) THEN FuLoop(m, vw, Tail(q))
        ELSE IF r.follow_up_count >= rule.max_attempts
             THEN [FuLoop(ApplyAfterMax(m, l, rule.after_max), vw, Tail(q))
                     EXCEPT !.maxed = @ \cup {l}]
        ELSE IF m.leads[l].follow_up_paused THEN FuLoop(m, vw, Tail(q))
        ELSE [mem |-> m, q |-> Tail(q), gen |-> TRUE, lead |-> l,
              count |-> r.follow_up_count, intent |-> GoverningIntent(r), maxed |-> {}]

FuIdle == [pc |-> "idle", q |-> <<>>, lead |-> 0, count |-> 0, intent |-> NoIntent]

\* The state after the loop stopped at res: inside generateFollowUpEmail, whose
\* first statement is db.read(), or at the db.write() that ends the sweep.
FuAfterLoop(res, vs) ==
  IF res.gen
  THEN /\ fu' = [pc |-> "generating", q |-> res.q, lead |-> res.lead,
                 count |-> res.count, intent |-> res.intent]
       /\ mem' = disk
       /\ disk' = disk
       /\ views' = DetachAll(vs, res.mem)
  ELSE /\ fu' = FuIdle
       /\ mem' = res.mem
       /\ disk' = res.mem
       /\ views' = [vs EXCEPT !["fu"] = IdleView]

\* processFollowUps() up to its first await of an external call.
FuStart ==
  /\ fu.pc = "idle"
  /\ fuCalls < MaxSweeps
  /\ fuCalls' = fuCalls + 1
  /\ cfg.email
  /\ LET vs == Attach(views, mem, "fu")
         q  == LeadsFrom(1, Leads)
     IN  FuAfterLoop(FuLoop(disk, vs["fu"], q), vs)
  /\ UNCHANGED <<now, cfg, seqProcessing, sq, en, sqCalls, enrolls, outbox, fuSent, fuDrafted,
                 inbox, gm, gmCalls, autoReplies, ds, approved, hs, fuSentAt, call>>

\* The test without the opt-in: objections are always sent in auto-mode.
IntentAllowedInAutoNoOptIn(intent) ==
  intent \in {"INTERESTED", "NOT_NOW", "GHOSTING", "OBJECTION"}

\* intentAllowedInAuto
IntentAllowedInAuto(intent) ==
  \/ intent \in {"INTERESTED", "NOT_NOW", "GHOSTING"}
  \/ (intent = "OBJECTION" /\ cfg.auto_mode_include_objections)

\* "Auto-select winner after 10 sends per variant".
WinnerMinSends == 10

\* A new ab_results record of a user and intent.
NoWinner == "null"
NewAbRecord ==
  [variant_a_sends |-> 0, variant_a_replies |-> 0, variant_b_sends |-> 0,
   variant_b_replies |-> 0, winner |-> NoWinner]

\* What the text-generation call of generateFollowUpEmail can yield: a text,
\* nothing but white space, or no answer (the request throws or is not ok).
FollowUpAnswers == {"text", "empty", "failed"}

\* The variant generateFollowUpEmail returns for lead l: the winner of the
\* record if there is one, else by the parity of the lead id; the fallback
\* after a failed call is labelled A.
FollowUpVariant(l, rec, ans) ==
  IF ans = "failed" THEN "A"
  ELSE IF rec.winner # NoWinner THEN rec.winner
  ELSE IF l % 2 = 0 THEN "A" ELSE "B"

\* result.body is non-empty: the model's text or the fallback text.
FollowUpHasBody(ans) == ans # "empty"

\* rateA >= rateB, for positive send counts.
RateAtLeast(rec) ==
  rec.variant_a_replies * rec.variant_b_sends >= rec.variant_b_replies * rec.variant_a_sends

\* "Track A/B send count for this user+intent" and the winner selection.
AbRecordSend(rec, v) ==
  LET r1 == IF v = "A" THEN [rec EXCEPT !.variant_a_sends = @ + 1]
            ELSE [rec EXCEPT !.variant_b_sends = @ + 1]
  IN  IF r1.winner = NoWinner /\ r1.variant_a_sends >= WinnerMinSends
         /\ r1.variant_b_sends >= WinnerMinSends
      THEN [r1 EXCEPT !.winner = IF RateAtLeast(r1) THEN "A" ELSE "B"]
      ELSE r1

\* "Update A/B reply count for the variant that sent this email" (ingestion).
AbRecordReply(rec, v) ==
  IF v = "A" THEN [rec EXCEPT !.variant_a_replies = @ + 1]
  ELSE [rec EXCEPT !.variant_b_replies = @ + 1]

\* The first follow-up of an intent is generated: the record is created.
AbTracked == call.fn = "ab_results"

\* processFollowUps generates a follow-up for lead l of the intent of the
\* record and tracks it; ans is the outcome of the text-generation call.
AbFollowUp(l, ans) ==
  /\ call = NoCall \/ AbTracked
  /\ LET rec == IF AbTracked THEN call.rec ELSE NewAbRecord
         v   == FollowUpVariant(l, rec, ans)
     IN  /\ rec.variant_a_sends < MaxAbCount /\ rec.variant_b_sends < MaxAbCount
         /\ call' = [fn |-> "ab_results", lead |-> l, ans |-> ans, variant |-> v,
                     rec |-> IF FollowUpHasBody(ans) THEN AbRecordSend(rec, v) ELSE rec]
  /\ UNCHANGED <<now, disk, mem, views, cfg, seqProcessing, sq, en, fu, sqCalls, fuCalls,
                 enrolls, outbox, fuSent, fuDrafted, inbox, gm, gmCalls, autoReplies, ds,
                 approved, hs, fuSentAt>>

\* Ingestion counts a positive reply to a follow-up of variant v.
AbReply(v) ==
  /\ AbTracked
  /\ call.rec.variant_a_replies < MaxAbCount /\ call.rec.variant_b_replies < MaxAbCount
  /\ IF v = "A" THEN call.rec.variant_a_sends > 0 ELSE call.rec.variant_b_sends > 0
  /\ call' = [call EXCEPT !.rec = AbRecordReply(@, v)]
  /\ UNCHANGED <<now, disk, mem, views, cfg, seqProcessing, sq, en, fu, sqCalls, fuCalls,
                 enrolls, outbox, fuSent, fuDrafted, inbox, gm, gmCalls, autoReplies, ds,
                 approved, hs, fuSentAt>>

\* "Create draft for approval".
FollowUpDraft(l, intent) ==
  [lead |-> l, kind |-> "follow_up", status |-> "pending", ai_intent |-> intent,
   msg |-> 0, clarification_needed |-> FALSE, needs_follow_up |-> FALSE]

\* generateFollowUpEmail returned; body tells whether result.body is non-empty.
FuGenDone(body) ==
  /\ fu.pc = "generating"
  /\ IF body /\ cfg.auto_mode_enabled /\ IntentAllowedInAuto(fu.intent)
     THEN /\ fu' = [fu EXCEPT !.pc = "sending"]
          /\ UNCHANGED <<mem, disk, views, fuDrafted>>
     ELSE LET m1 == IF body
                    THEN [mem EXCEPT !.drafts = Append(@, FollowUpDraft(fu.lead, fu.intent))]
                    ELSE mem
          IN  /\ FuAfterLoop(FuLoop(m1, views["fu"], fu.q), views)
              /\ fuDrafted' = IF body THEN [fuDrafted EXCEPT ![fu.lead] = @ + 1]
                              ELSE fuDrafted
  /\ UNCHANGED <<now, cfg, seqProcessing, sq, en, sqCalls, fuCalls, enrolls, outbox, fuSent,
                 inbox, gm, gmCalls, autoReplies, ds, approved, hs, fuSentAt, call>>

\* The bookkeeping after a follow-up was sent: the live lead, and one more
\* email_history row of type follow_up for it.
FuRecordSend(m, l, count) ==
  [m EXCEPT !.leads[l].follow_up_count = count + 1,
            !.leads[l].last_email_sent_date = now,
            !.history[l] = @ + 1]

\* sendEmail of the follow-up returned (ok) or threw (~ok).
FuSendDone(ok) ==
  /\ fu.pc = "sending"
  /\ LET m1 == IF ok THEN FuRecordSend(mem, fu.lead, fu.count) ELSE mem
     IN  FuAfterLoop(FuLoop(m1, views["fu"], fu.q), views)
  /\ fuSent' = IF ok THEN [fuSent EXCEPT ![fu.lead] = @ + 1] ELSE fuSent
  /\ fuSentAt' = IF ok THEN [fuSentAt EXCEPT ![fu.lead] = now] ELSE fuSentAt
  /\ UNCHANGED <<now, cfg, seqProcessing, sq, en, sqCalls, fuCalls, enrolls, outbox, fuDrafted,
                 inbox, gm, gmCalls, autoReplies, ds, approved, hs, call>>

\* ------------------------------------------------------------ reply ingestion
\* checkGmailReplies (Gmail API) when the owner's settings name Gmail with a
\* token, checkEmailReplies (IMAP) otherwise. The mailbox query returns every
\* message of the last days again on each check; a message is identified by its
\* position in the mailbox (its Gmail id; its sender, subject and body).
\* auto: the run was started by checkGmailAutomatic, which clears
\* _gmailCheckRunning when it ends.
GmIdle ==
  [pc |-> "idle", q |-> <<>>, msg |-> 0, lead |-> 0, prev |-> NoIntent,
   intent |-> NoIntent, clar |-> FALSE, auto |-> FALSE]

\* _gmailCheckRunning: set by checkGmailAutomatic for the time of its run.
GmailCheckRunning == \E h \in GmIds : gm[h].pc # "idle" /\ gm[h].auto

\* A write through a lead object that always reaches db.data, as if no
\* db.read() ever detached it.
SetLeadAttached(m, vs, t, l, r) == [mem |-> [m EXCEPT !.leads[l] = r], views |-> vs]

\* A write of r to the lead object a task holds: to db.data while the object is
\* part of it, to the detached object otherwise.
SetLead(m, vs, t, l, r) ==
  IF vs[t].att THEN [mem |-> [m EXCEPT !.leads[l] = r], views |-> vs]
  ELSE [mem |-> m, views |-> [vs EXCEPT ![t].leads[l] = r]]

\* alreadyProcessed: an email_threads entry carries this Gmail message id.
AlreadyProcessed(d, msg) ==
  \E i \in DOMAIN d.threads : d.threads[i].gmail_message_id = msg

\* The rest of the message list from the first message that gets past the
\* duplicate check (checkGmailReplies only; checkEmailReplies has none).
RECURSIVE GmPending(_, _)
GmPending(d, q) ==
  IF q = <<>> THEN q
  ELSE IF cfg.gmail /\ AlreadyProcessed(d, Head(q)) THEN GmPending(d, Tail(q))
  ELSE q

\* The rule without its exception: every classification overwrites.
ShouldUpdateIntentAlways(p, c) == TRUE

\* shouldUpdateIntent = !(prevIntent === 'INTERESTED' && analysis.intent === 'GHOSTING')
ShouldUpdateIntent(p, c) == ~(p = "INTERESTED" /\ c = "GHOSTING")

\* "Update lead": intent, follow-up counter and status after classification c.
Classify(r, c) ==
  LET upd == ShouldUpdateIntent(r.ai_intent, c)
      i1  == IF upd THEN c ELSE r.ai_intent
  IN  [r EXCEPT !.follow_up_count =
                   IF upd /\ r.ai_intent # NoIntent /\ r.ai_intent # c THEN 0 ELSE @,
                !.ai_intent = i1,
                !.status = IF i1 = "INTERESTED" THEN "interested"
                           ELSE IF i1 = "DEAD" THEN "dead" ELSE "analyzed"]

\* "AUTO-PAUSE SEQUENCE: Any reply means the sequence served its purpose."
AutoPause(r) ==
  IF r.enrolled_sequence_id # 0 /\ r.sequence_completed = FALSE /\ ~r.sequence_paused
  THEN [r EXCEPT !.sequence_paused = TRUE]
  ELSE r

\* The email_threads entry of an inbound message.
Thread(msg, l, c) ==
  [msg |-> msg, lead |-> l, ai_intent |-> c,
   gmail_message_id |-> IF cfg.gmail THEN msg ELSE 0]

\* existingDraft: a pending draft for this very reply of the lead.
ExistingDraft(m, l, msg) ==
  \E i \in DOMAIN m.drafts :
    m.drafts[i].lead = l /\ m.drafts[i].msg = msg /\ m.drafts[i].status = "pending"

\* An ai_drafts entry for a reply to message msg.
ReplyDraft(l, msg, intent, status, clar, nfu) ==
  [lead |-> l, kind |-> "reply", status |-> status, ai_intent |-> intent,
   msg |-> msg, clarification_needed |-> clar, needs_follow_up |-> nfu]

\* Ingestion that leaves the older drafts of the lead as they are.
KeepStaleDrafts(m, l) == m

\* resolveStaleActionRequiredDrafts(leadId)

ResolveStaleActionRequiredDrafts(m, l) ==
  LET drs == m.drafts IN
  [m EXCEPT !.drafts =
     [i \in DOMAIN drs |->
        IF drs[i].lead = l /\ drs[i].status = "pending"
           /\ (drs[i].needs_follow_up \/ drs[i].clarification_needed)
        THEN [drs[i] EXCEPT !.status = "resolved"]
        ELSE drs[i]]]

\* "Cap at 50 winning emails per user".
WinningCap == 50

\* The users whose replies are ingested: the owner (1) and one other user.
Users == {1, 2}

\* The winning_emails of user u within list, oldest first.
UserWinning(list, u) ==
  LET Mine(w) == w.user_id = u IN SelectSeq(list, Mine)

\* "AI LEARNING": the block that stores a winning email for user u in
\* db.data.winning_emails = list.
RecordWinningEmail(list, u) ==
  LET userWinning == UserWinning(list, u)
      Kept(w) == w.id # userWinning[1].id
      l1 == IF Len(userWinning) >= WinningCap THEN SelectSeq(list, Kept) ELSE list
  IN  Append(l1, [id |-> Len(l1) + 1, user_id |-> u])

\* Ingestion for user u classifies a reply as positive and stores the email
\* that triggered it.
WinningRecord(u) ==
  /\ call = NoCall \/ call.fn = "winning_emails"
  /\ LET list == IF call = NoCall THEN <<>> ELSE call.list
         n    == IF call = NoCall THEN [x \in Users |-> 0] ELSE call.n
     IN  /\ n[u] < (IF u = 1 THEN MaxWinning ELSE MaxOtherWinning)
         /\ call' = [fn |-> "winning_emails", user |-> u,
                     list |-> RecordWinningEmail(list, u),
                     n |-> [n EXCEPT ![u] = @ + 1]]
  /\ UNCHANGED <<now, disk, mem, views, cfg, seqProcessing, sq, en, fu, sqCalls, fuCalls,
                 enrolls, outbox, fuSent, fuDrafted, inbox, gm, gmCalls, autoReplies, ds,
                 approved, hs, fuSentAt>>

\* The message loop from the end of one message's handling (db.data = m,
\* db.json = d) up to the next await analyzeReplyWithAI: each message starts
\* with db.read(); after the last one the caller stamps last_checked and
\* calls db.write().
GmAfter(g, a, m, d, vs, q) ==
  LET q1 == GmPending(d, q) IN
  IF q1 = <<>>
  THEN LET m1 == IF q = <<>> THEN m ELSE d IN
       /\ gm' = [gm EXCEPT ![g] = GmIdle]
       /\ mem' = m1
       /\ disk' = m1
       /\ views' = [(IF q = <<>> THEN vs ELSE DetachAll(vs, m)) EXCEPT ![g] = IdleView]
  ELSE /\ gm' = [gm EXCEPT ![g] = [GmIdle EXCEPT !.pc = "analyzing", !.q = Tail(q1),
                                                !.msg = Head(q1), !.lead = inbox[Head(q1)],
                                                !.auto = a]]
       /\ mem' = d
       /\ disk' = d
       /\ views' = Attach(vs, m, g)

\* A lead's reply arrives in the owner's mailbox.
Arrive(l) ==
  /\ Len(inbox) < MaxMsgs
  /\ inbox' = Append(inbox, l)
  /\ UNCHANGED <<now, disk, mem, views, cfg, seqProcessing, sq, en, fu, sqCalls, fuCalls,
                 enrolls, outbox, fuSent, fuDrafted, gm, gmCalls, autoReplies, ds, approved, hs, fuSentAt, call>>

\* A mailbox check starts: checkGmailAutomatic (auto, which yields to a running
\* sequence sweep and to a run of its own) or POST /api/emails/check, which
\* tests nothing; up to the first analyzeReplyWithAI. g is a free place among
\* the runs the model follows.
GmStart(g, auto) ==
  /\ gm[g].pc = "idle"
  /\ gmCalls < MaxChecks
  /\ cfg.email
  /\ auto => (cfg.gmail /\ ~GmailCheckRunning /\ ~seqProcessing)
  /\ gmCalls' = gmCalls + 1
  /\ GmAfter(g, auto, disk, disk, DetachAll(views, mem), [i \in 1..Len(inbox) |-> i])
  /\ UNCHANGED <<now, cfg, seqProcessing, sq, en, fu, sqCalls, fuCalls, enrolls, outbox,
                 fuSent, fuDrafted, inbox, autoReplies, ds, approved, hs, fuSentAt, call>>

\* What the classifier call can yield: one of the labels, a text that names
\* none of them, or no answer (the request throws or is not ok).
RawAnswers == Intents \cup {"other", "failed"}

\* analyzeReplyWithAI: the label found in the answer, GHOSTING for an answer
\* without one, and the keyword classification kw when the call fails.
AnalyzeReplyWithAI(raw, kw) ==
  IF raw \in Intents THEN raw
  ELSE IF raw = "other" THEN "GHOSTING"
  ELSE kw

\* analyzeReplyWithAI returned intent c: update the lead, record the thread,
\* db.write(); detectAppointmentFromEmail finds no appointment; then
\* generateAIResponse, whose first statement is db.read(), unless a pending
\* draft for this reply exists.
GmAnalyzed(g, c) ==
  /\ gm[g].pc = "analyzing"
  /\ LET l  == gm[g].lead
         r  == Ref(mem, views[g], l)
         r1 == Classify(r, c)
         r2 == IF cfg.gmail THEN AutoPause(r1) ELSE r1
         w  == SetLead(mem, views, g, l, r2)
         m1 == [w.mem EXCEPT !.threads = Append(@, Thread(gm[g].msg, l, c))]
     IN  IF ExistingDraft(m1, l, gm[g].msg)
         THEN GmAfter(g, gm[g].auto, m1, m1, w.views, gm[g].q)
         ELSE /\ gm' = [gm EXCEPT ![g].pc = "generating", ![g].prev = r.ai_intent,
                                    ![g].intent = c]
              /\ mem' = m1
              /\ disk' = m1
              /\ views' = DetachAll(w.views, m1)
  /\ UNCHANGED <<now, cfg, seqProcessing, sq, en, fu, sqCalls, fuCalls, enrolls, outbox,
                 fuSent, fuDrafted, inbox, gmCalls, autoReplies, ds, approved, hs, fuSentAt, call>>

\* What the text-generation call of generateAIResponse can yield, after trim():
\* a reply, a reply carrying [NEEDS_CLARIFICATION], the marker alone, nothing
\* but white space, or no answer (the request throws or is not ok).
AiAnswers == {"reply", "flagged", "flag_only", "blank", "failed"}

\* The bodies generateAIResponse returns: the model's text (left after the
\* marker is removed and the rest trimmed), its two fixed holding messages and
\* its per-intent template; "" is an empty body.
\* generateAIResponse(lead, originalReply, intent): hp is hasProductInfo.
GenerateAIResponse(ans, intent, hp) ==
  LET needsClarification == ans \in {"flagged", "flag_only"}
      aiBody == IF ans \in {"reply", "flagged"} THEN "reply" ELSE ""
  IN  IF ~hp /\ intent \in {"INTERESTED", "OBJECTION"}
      THEN [body |-> "clarification", clarification_needed |-> TRUE]
      ELSE IF ans = "failed"
      THEN [body |-> "template", clarification_needed |-> FALSE]
      ELSE IF aiBody = ""
      THEN [body |-> "holding",
            clarification_needed |-> IF intent = "INTERESTED" /\ hp THEN FALSE ELSE TRUE]
      ELSE [body |-> aiBody,
            clarification_needed |-> IF intent = "INTERESTED" /\ hp THEN FALSE
                                     ELSE needsClarification]

\* "Safety: never send blank emails" in checkGmailReplies: a blank draft is
\* dropped (null) and nothing is sent or stored for it.
DraftAfterGuard(body) == IF body = "" THEN "null" ELSE body

\* generateAIResponse is called for a reply of intent `intent`.
GenerateCall(ans, intent, hp, auto) ==
  /\ call = NoCall
  /\ call' = [fn |-> "generateAIResponse", ans |-> ans, intent |-> intent, hp |-> hp,
              auto |-> auto, returned |-> FALSE, draft |-> "null",
              clarification_needed |-> FALSE, sent |-> FALSE]
  /\ UNCHANGED <<now, disk, mem, views, cfg, seqProcessing, sq, en, fu, sqCalls, fuCalls,
                 enrolls, outbox, fuSent, fuDrafted, inbox, gm, gmCalls, autoReplies, ds,
                 approved, hs, fuSentAt>>

\* It returns, and the handler decides: with a draft in hand and auto-mode on
\* (auto) the draft goes to sendEmail; a first holding reply is sent as well.
GenerateReturn ==
  /\ call.fn = "generateAIResponse"
  /\ ~call.returned
  /\ LET res   == GenerateAIResponse(call.ans, call.intent, call.hp)
         draft == DraftAfterGuard(res.body)
     IN  call' = [call EXCEPT !.returned = TRUE, !.draft = draft,
                              !.clarification_needed = res.clarification_needed,
                              !.sent = (draft # "null" /\ call.auto)]
  /\ UNCHANGED <<now, disk, mem, views, cfg, seqProcessing, sq, en, fu, sqCalls, fuCalls,
                 enrolls, outbox, fuSent, fuDrafted, inbox, gm, gmCalls, autoReplies, ds,
                 approved, hs, fuSentAt>>

\* generateAIResponse returned: body tells whether the draft is non-blank, clar
\* is its clarification_needed. Dispatch on the owner's mode and on the lead
\* object the handler holds.
GmGenerated(g, body, clar) ==
  /\ gm[g].pc = "generating"
  /\ LET l == gm[g].lead
         r == Ref(mem, views[g], l)
         shouldAutoSend == cfg.auto_mode_enabled /\ r.auto_send_enabled
         alreadySentHolding == r.clarification_count >= 1
     IN  IF ~body THEN GmAfter(g, gm[g].auto, mem, disk, views, gm[g].q)
         ELSE IF shouldAutoSend /\ clar /\ alreadySentHolding
         THEN LET w  == SetLead(mem, views, g, l,
                                [r EXCEPT !.clarification_count = @ + 1])
                  m1 == [w.mem EXCEPT !.drafts =
                           Append(@, ReplyDraft(l, gm[g].msg, gm[g].intent, "pending", TRUE, TRUE))]
              IN  GmAfter(g, gm[g].auto, m1, m1, w.views, gm[g].q)
         ELSE IF shouldAutoSend
         THEN /\ gm' = [gm EXCEPT ![g].pc = "sending", ![g].clar = clar]
              /\ UNCHANGED <<mem, disk, views>>
         ELSE LET m0 == IF clar THEN mem ELSE ResolveStaleActionRequiredDrafts(mem, l)
                  m1 == [m0 EXCEPT !.drafts =
                           Append(@, ReplyDraft(l, gm[g].msg, gm[g].intent, "pending", clar, FALSE))]
              IN  GmAfter(g, gm[g].auto, m1, m1, views, gm[g].q)
  /\ UNCHANGED <<now, cfg, seqProcessing, sq, en, fu, sqCalls, fuCalls, enrolls, outbox,
                 fuSent, fuDrafted, inbox, gmCalls, autoReplies, ds, approved, hs, fuSentAt, call>>

\* sendEmail of the automatic reply returned (ok) or threw (~ok); it throws at
\* once unless the settings name Gmail.
GmSendDone(g, ok) ==
  /\ gm[g].pc = "sending"
  /\ ok => cfg.gmail
  /\ LET l == gm[g].lead
         r == Ref(mem, views[g], l)
     IN  IF ok
         THEN LET r1 == [r EXCEPT !.status = "replied",
                                  !.last_email_sent_date = now,
                                  !.clarification_count = IF gm[g].clar THEN @ + 1 ELSE 0]
                  w  == SetLead(mem, views, g, l, r1)
                  m0 == [w.mem EXCEPT !.inter = @ \cup {<<l, 0, gm[g].msg>>}]
                  m1 == IF gm[g].clar
                        THEN [m0 EXCEPT !.drafts =
                                Append(@, ReplyDraft(l, gm[g].msg, gm[g].intent, "sent", TRUE, TRUE))]
                        ELSE ResolveStaleActionRequiredDrafts(m0, l)
              IN  GmAfter(g, gm[g].auto, m1, m1, w.views, gm[g].q)
         ELSE LET m1 == [mem EXCEPT !.drafts =
                           Append(@, ReplyDraft(l, gm[g].msg, gm[g].intent, "pending", gm[g].clar, FALSE))]
              IN  GmAfter(g, gm[g].auto, m1, m1, views, gm[g].q)
  /\ autoReplies' =
       IF ok THEN Append(autoReplies, [lead |-> gm[g].lead, msg |-> gm[g].msg,
                                       intent |-> gm[g].intent, clar |-> gm[g].clar])
       ELSE autoReplies
  /\ UNCHANGED <<now, cfg, seqProcessing, sq, en, fu, sqCalls, fuCalls, enrolls, outbox,
                 fuSent, fuDrafted, inbox, gmCalls, ds, approved, hs, fuSentAt, call>>

\* PATCH /api/leads/:id with body {ai_intent: i}.
PatchLead(l, i) ==
  /\ LET m1 == [disk EXCEPT !.leads[l].ai_intent = i] IN
     /\ mem' = m1
     /\ disk' = m1
     /\ views' = DetachAll(views, mem)
  /\ UNCHANGED <<now, cfg, seqProcessing, sq, en, fu, sqCalls, fuCalls, enrolls, outbox,
                 fuSent, fuDrafted, inbox, gm, gmCalls, autoReplies, ds, approved, hs, fuSentAt, call>>

\* ------------------------------------------------------------ owner actions
\* POST /api/leads/:id/pause-follow-ups with body {paused: p}: db.read(), set
\* the flag, on a pause drop every draft of the lead, db.write().
PauseFollowUps(l, p) ==
  /\ LET m1 == [disk EXCEPT !.leads[l].follow_up_paused = p,
                            !.drafts = IF p THEN SelectSeq(@, LAMBDA d : d.lead # l) ELSE @]
     IN  /\ mem' = m1
         /\ disk' = m1
         /\ views' = DetachAll(views, mem)
  /\ UNCHANGED <<now, cfg, seqProcessing, sq, en, fu, sqCalls, fuCalls, enrolls, outbox,
                 fuSent, fuDrafted, inbox, gm, gmCalls, autoReplies, ds, approved, hs, fuSentAt, call>>

DsIdle == [pc |-> "idle", draft |-> 0, lead |-> 0, kind |-> "none", msg |-> 0]

\* POST /api/drafts/:id/send for the pending draft at position i of ai_drafts,
\* up to its await sendEmail.
DraftSendStart(i) ==
  /\ ds.pc = "idle"
  /\ i \in DOMAIN disk.drafts
  /\ disk.drafts[i].status = "pending"
  /\ approved[disk.drafts[i].lead] < MaxApprovals
  /\ cfg.email
  /\ ds' = [pc |-> "sending", draft |-> i, lead |-> disk.drafts[i].lead,
            kind |-> disk.drafts[i].kind, msg |-> disk.drafts[i].msg]
  /\ mem' = disk
  /\ disk' = disk
  /\ views' = Attach(views, mem, "ds")
  /\ UNCHANGED <<now, cfg, seqProcessing, sq, en, fu, sqCalls, fuCalls, enrolls, outbox,
                 fuSent, fuDrafted, inbox, gm, gmCalls, autoReplies, approved, hs, fuSentAt, call>>

\* sendEmail of the draft returned (ok) or threw (~ok): the interaction is
\* pushed to db.data, draft and lead are updated through the objects found
\* before the await, db.write(); the catch block answers 500 and writes nothing.
DraftSendDone(ok) ==
  /\ ds.pc = "sending"
  /\ ok => cfg.gmail
  /\ LET l  == ds.lead
         r  == Ref(mem, views["ds"], l)
         w  == SetLead(mem, views, "ds", l,
                       [r EXCEPT !.status = "replied", !.clarification_count = 0])
         m0 == [w.mem EXCEPT !.inter = @ \cup {<<l, 0, ds.msg>>}]
         m1 == IF views["ds"].att
               THEN [m0 EXCEPT !.drafts[ds.draft].status = "sent"]
               ELSE m0
     IN  IF ok
         THEN /\ mem' = m1
              /\ disk' = m1
              /\ views' = [w.views EXCEPT !["ds"] = IdleView]
         ELSE /\ UNCHANGED <<mem, disk>>
              /\ views' = [views EXCEPT !["ds"] = IdleView]
  /\ approved' = IF ok /\ ds.kind = "follow_up"
                 THEN [approved EXCEPT ![ds.lead] = @ + 1] ELSE approved
  /\ ds' = DsIdle
  /\ UNCHANGED <<now, cfg, seqProcessing, sq, en, fu, sqCalls, fuCalls, enrolls, outbox,
                 fuSent, fuDrafted, inbox, gm, gmCalls, autoReplies, hs, fuSentAt, call>>

\* POST /api/leads/:id/send-initial-email for lead l, up to its await sendEmail.
InitialSendStart(l) ==
  /\ hs.pc = "idle"
  /\ cfg.email
  /\ hs' = [HsIdle EXCEPT !.pc = "sending", !.route = "initial", !.lead = l]
  /\ mem' = disk
  /\ disk' = disk
  /\ views' = Attach(views, mem, "hs")
  /\ UNCHANGED <<now, cfg, seqProcessing, sq, en, fu, sqCalls, fuCalls, enrolls, outbox,
                 fuSent, fuDrafted, inbox, gm, gmCalls, autoReplies, ds, approved, fuSentAt,
                 call>>

\* sendEmail of the initial email returned (ok) or threw (~ok): the lead is
\* updated through the object found before the await, the lead's pending
\* drafts in db.data are rejected, db.write(); the catch block writes nothing.
InitialSendDone(ok) ==
  /\ hs.pc = "sending"
  /\ hs.route = "initial"
  /\ ok => cfg.gmail
  /\ LET l  == hs.lead
         r  == Ref(mem, views["hs"], l)
         w  == SetLead(mem, views, "hs", l,
                       [r EXCEPT !.initial_email_sent = TRUE, !.last_email_sent_date = now,
                                 !.status = "contacted", !.clarification_count = 0])
         m1 == [w.mem EXCEPT !.drafts =
                  [i \in DOMAIN @ |->
                     IF @[i].lead = l /\ @[i].status = "pending"
                     THEN [@[i] EXCEPT !.status = "rejected"] ELSE @[i]]]
     IN  IF ok
         THEN /\ mem' = m1
              /\ disk' = m1
         ELSE UNCHANGED <<mem, disk>>
  /\ views' = [views EXCEPT !["hs"] = IdleView]
  /\ hs' = HsIdle
  /\ UNCHANGED <<now, cfg, seqProcessing, sq, en, fu, sqCalls, fuCalls, enrolls, outbox,
                 fuSent, fuDrafted, inbox, gm, gmCalls, autoReplies, ds, approved, fuSentAt,
                 call>>

\* The loop of POST /api/drafts/bulk-send over pendingDrafts from its current
\* draft: objection drafts are skipped unless the owner opted in; it stops at
\* the next await sendEmail (the draft's position) or at the end (0).
RECURSIVE BulkNext(_, _)
BulkNext(m, q) ==
  IF q = <<>> THEN [draft |-> 0, q |-> q]
  ELSE IF m.drafts[Head(q)].ai_intent = "OBJECTION" /\ ~cfg.auto_mode_include_objections
       THEN BulkNext(m, Tail(q))
       ELSE [draft |-> Head(q), q |-> Tail(q)]

\* The state after that loop stopped: in sendEmail for a draft whose lead was
\* just looked up in db.data (stale tells whether the draft objects, found at
\* the start of the request, are still part of db.data), or after the final
\* db.write().
BulkAfter(m, vs, stale, q) ==
  LET nx == BulkNext(m, q) IN
  IF nx.draft # 0
  THEN /\ hs' = [pc |-> "sending", route |-> "bulk", q |-> nx.q,
                 lead |-> m.drafts[nx.draft].lead, draft |-> nx.draft,
                 stale |-> (stale \/ ~vs["hs"].att)]
       /\ mem' = m
       /\ disk' = disk
       /\ views' = [vs EXCEPT !["hs"] = [att |-> TRUE, leads |-> IdleView.leads]]
  ELSE /\ hs' = HsIdle
       /\ mem' = m
       /\ disk' = m
       /\ views' = [vs EXCEPT !["hs"] = IdleView]

\* POST /api/drafts/bulk-send with send_all, up to its first await sendEmail.
BulkSendStart ==
  /\ hs.pc = "idle"
  /\ cfg.gmail
  /\ \E i \in DOMAIN disk.drafts : disk.drafts[i].status = "pending"
  /\ LET q == SelectSeq([i \in DOMAIN disk.drafts |-> i],
                        LAMBDA i : disk.drafts[i].status = "pending")
     IN  BulkAfter(disk, Attach(views, mem, "hs"), FALSE, q)
  /\ UNCHANGED <<now, cfg, seqProcessing, sq, en, fu, sqCalls, fuCalls, enrolls, outbox,
                 fuSent, fuDrafted, inbox, gm, gmCalls, autoReplies, ds, approved, fuSentAt,
                 call>>

\* sendEmail of a draft returned (ok) or threw (~ok): draft.status = 'sent' and
\* lead.status = 'replied' through the objects in hand; the loop goes on.
BulkSendDone(ok) ==
  /\ hs.pc = "sending"
  /\ hs.route = "bulk"
  /\ LET l     == hs.lead
         stale == hs.stale \/ ~views["hs"].att
         r     == Ref(mem, views["hs"], l)
         w     == SetLead(mem, views, "hs", l, [r EXCEPT !.status = "replied"])
         m1    == IF stale THEN w.mem
                  ELSE [w.mem EXCEPT !.drafts[hs.draft].status = "sent"]
     IN  IF ok THEN BulkAfter(m1, w.views, hs.stale, hs.q)
         ELSE BulkAfter(mem, views, hs.stale, hs.q)
  /\ UNCHANGED <<now, cfg, seqProcessing, sq, en, fu, sqCalls, fuCalls, enrolls, outbox,
                 fuSent, fuDrafted, inbox, gm, gmCalls, autoReplies, ds, approved, fuSentAt,
                 call>>

\* POST /api/send-email (a template to the leads ids), up to its first await
\* sendEmail: db.read(), then one send per lead.
TemplateSendStart(ids) ==
  /\ hs.pc = "idle"
  /\ cfg.gmail
  /\ LET q == LeadsFrom(1, ids)
     IN  hs' = [HsIdle EXCEPT !.pc = "sending", !.route = "template", !.q = Tail(q),
                              !.lead = Head(q)]
  /\ mem' = disk
  /\ disk' = disk
  /\ views' = Attach(views, mem, "hs")
  /\ UNCHANGED <<now, cfg, seqProcessing, sq, en, fu, sqCalls, fuCalls, enrolls, outbox,
                 fuSent, fuDrafted, inbox, gm, gmCalls, autoReplies, ds, approved, fuSentAt,
                 call>>

\* sendEmail of the template returned or threw: only the response lists differ;
\* the handler goes on to the next lead and never writes the store.
TemplateSendDone ==
  /\ hs.pc = "sending"
  /\ hs.route = "template"
  /\ IF hs.q = <<>>
     THEN /\ hs' = HsIdle
          /\ views' = [views EXCEPT !["hs"] = IdleView]
     ELSE /\ hs' = [hs EXCEPT !.q = Tail(hs.q), !.lead = Head(hs.q)]
          /\ views' = views
  /\ UNCHANGED <<now, disk, mem, cfg, seqProcessing, sq, en, fu, sqCalls, fuCalls, enrolls,
                 outbox, fuSent, fuDrafted, inbox, gm, gmCalls, autoReplies, ds, approved,
                 fuSentAt, call>>

\* The owner updates the knowledge base: POST /api/settings/automation with
\* business_knowledge or live_updates, POST or DELETE
\* /api/settings/product-profile. db.read(), every lead's clarification_count
\* = 0, db.write().
KnowledgeUpdate ==
  /\ LET m1 == [disk EXCEPT !.leads =
                  [l \in Leads |-> [disk.leads[l] EXCEPT !.clarification_count = 0]]]
     IN  /\ mem' = m1
         /\ disk' = m1
         /\ views' = DetachAll(views, mem)
  /\ UNCHANGED <<now, cfg, seqProcessing, sq, en, fu, sqCalls, fuCalls, enrolls, outbox,
                 fuSent, fuDrafted, inbox, gm, gmCalls, autoReplies, ds, approved, hs,
                 fuSentAt, call>>

\* PATCH /api/leads/:id/auto-send with body {auto_send_enabled: b}: db.read(),
\* set the flag, db.write().
SetAutoSend(l, b) ==
  /\ LET m1 == [disk EXCEPT !.leads[l].auto_send_enabled = b]
     IN  /\ mem' = m1
         /\ disk' = m1
         /\ views' = DetachAll(views, mem)
  /\ UNCHANGED <<now, cfg, seqProcessing, sq, en, fu, sqCalls, fuCalls, enrolls, outbox,
                 fuSent, fuDrafted, inbox, gm, gmCalls, autoReplies, ds, approved, hs,
                 fuSentAt, call>>

\* --------------------------------------------------------------------- clock
Tick ==
  /\ now < MaxTime
  /\ now' = now + 1
  /\ UNCHANGED <<disk, mem, views, cfg, seqProcessing, sq, en, fu, sqCalls, fuCalls, enrolls,
                 outbox, fuSent, fuDrafted,
                 inbox, gm, gmCalls, autoReplies, ds, approved, hs, fuSentAt, call>>

\* ------------------------------------------------------------ specifications
InitCommon ==
  /\ now = 0
  /\ disk = EmptyStore
  /\ mem = EmptyStore
  /\ views = [t \in TaskIds |-> IdleView]
  /\ seqProcessing = FALSE
  /\ sq = [i \in SqIds |-> SqIdle]
  /\ en = EnIdle
  /\ fu = FuIdle
  /\ fuSent = [l \in Leads |-> 0]
  /\ fuDrafted = [l \in Leads |-> 0]
  /\ sqCalls = 0
  /\ fuCalls = 0
  /\ enrolls = 0
  /\ outbox = [k \in OutboxKeys |-> 0]
  /\ inbox = <<>>
  /\ gm = [g \in GmIds |-> GmIdle]
  /\ gmCalls = 0
  /\ autoReplies = <<>>
  /\ ds = DsIdle
  /\ approved = [l \in Leads |-> 0]
  /\ hs = HsIdle
  /\ fuSentAt = [l \in Leads |-> NoTime]
  /\ call = NoCall

OwnerAuto ==
  [gmail |-> TRUE, email |-> TRUE, auto_mode_enabled |-> TRUE,
   auto_mode_include_objections |-> FALSE]

Init ==
  /\ InitCommon
  /\ cfg = OwnerAuto

SqNext ==
  \/ \E i \in SqIds : SqStart(i)
  \/ \E i \in SqIds : SqSkip(i)
  \/ \E i \in SqIds, ok \in BOOLEAN : SqSendDone(i, ok)

EnNext ==
  \/ \E s \in Seqs, ids \in (SUBSET Leads) \ {{}} : EnrollStart(s, ids)
  \/ \E ok \in BOOLEAN : EnrollSendDone(ok)

FuNext ==
  \/ FuStart
  \/ \E body \in BOOLEAN : FuGenDone(body)
  \/ \E ok \in BOOLEAN : FuSendDone(ok)

\* One mailbox check at a time.
GmNext ==
  \/ \E l \in Leads : Arrive(l)
  \/ \E auto \in BOOLEAN : GmStart("gm1", auto)
  \/ \E c \in Intents : GmAnalyzed("gm1", c)
  \/ \E body, clar \in BOOLEAN : GmGenerated("gm1", body, clar)
  \/ \E ok \in BOOLEAN : GmSendDone("gm1", ok)

PatchNext == \E l \in Leads, i \in Intents : PatchLead(l, i)

PauseNext == \E l \in Leads, p \in BOOLEAN : PauseFollowUps(l, p)

DsNext ==
  \/ \E i \in 1..Len(disk.drafts) : DraftSendStart(i)
  \/ \E ok \in BOOLEAN : DraftSendDone(ok)

AutoSendNext == \E l \in Leads, b \in BOOLEAN : SetAutoSend(l, b)

HsNext ==
  \/ \E l \in Leads : InitialSendStart(l)
  \/ \E ok \in BOOLEAN : InitialSendDone(ok)
  \/ BulkSendStart
  \/ \E ok \in BOOLEAN : BulkSendDone(ok)
  \/ \E ids \in (SUBSET Leads) \ {{}} : TemplateSendStart(ids)
  \/ TemplateSendDone

Next ==
  \/ Tick \/ SqNext \/ EnNext \/ FuNext \/ GmNext \/ PatchNext \/ PauseNext \/ DsNext
  \/ HsNext \/ KnowledgeUpdate \/ AutoSendNext

Spec == Init /\ [][Next]_vars

\* Enrollment requests and sequence sweeps.
NextEnroll == Tick \/ SqNext \/ EnNext
SpecEnroll == Init /\ [][NextEnroll]_vars

\* Enrollment requests and cadence sweeps.
NextCadence == Tick \/ EnNext \/ FuNext
SpecCadence == Init /\ [][NextCadence]_vars

\* The store after POST /api/sequences/1/enroll for every lead at time 0:
\* step 1 was sent to each of them.
EnrolledLead ==
  [ContactedLead EXCEPT !.enrolled_sequence_id = 1, !.sequence_current_step = 1,
                        !.sequence_last_sent = 0]

EnrolledStore ==
  [EmptyStore EXCEPT !.leads = [l \in Leads |-> EnrolledLead],
                     !.inter = {<<l, 1, 1>> : l \in Leads}]

InitEnrolled ==
  /\ now = 0
  /\ disk = EnrolledStore
  /\ mem = EnrolledStore
  /\ views = [t \in TaskIds |-> IdleView]
  /\ cfg = OwnerAuto
  /\ seqProcessing = FALSE
  /\ sq = [i \in SqIds |-> SqIdle]
  /\ en = EnIdle
  /\ fu = FuIdle
  /\ sqCalls = 0
  /\ fuCalls = 0
  /\ enrolls = 0
  /\ outbox = [k \in OutboxKeys |-> IF k[2] = 1 /\ k[3] = 1 THEN 1 ELSE 0]
  /\ fuSent = [l \in Leads |-> 0]
  /\ fuDrafted = [l \in Leads |-> 0]
  /\ inbox = <<>>
  /\ gm = [g \in GmIds |-> GmIdle]
  /\ gmCalls = 0
  /\ autoReplies = <<>>
  /\ ds = DsIdle
  /\ approved = [l \in Leads |-> 0]
  /\ hs = HsIdle
  /\ fuSentAt = [l \in Leads |-> NoTime]
  /\ call = NoCall

\* Sequence sweeps and cadence sweeps over enrolled leads.
NextSweep == Tick \/ SqNext \/ FuNext
SpecSweep == InitEnrolled /\ [][NextSweep]_vars

\* Sequence sweeps alone, started by the cron job and by its setTimeout.
NextGuard == Tick \/ SqNext
SpecGuard == InitEnrolled /\ [][NextGuard]_vars

\* Mailbox checks and sequence sweeps over enrolled leads. The auto-pause
\* depends neither on the classification nor on the generated reply: one
\* classification is explored, and replies that need no clarification.
NextIngest ==
  \/ Tick
  \/ SqNext
  \/ \E l \in Leads : Arrive(l)
  \/ \E auto \in BOOLEAN : GmStart("gm1", auto)
  \/ GmAnalyzed("gm1", "INTERESTED")
  \/ \E body \in BOOLEAN : GmGenerated("gm1", body, FALSE)
  \/ \E ok \in BOOLEAN : GmSendDone("gm1", ok)

SpecIngest == InitEnrolled /\ [][NextIngest]_vars

\* An owner without Gmail OAuth: replies are read over IMAP, nothing can be sent.
OwnerImap == [OwnerAuto EXCEPT !.gmail = FALSE]

\* Mailbox checks for an owner on either ingestion path, with cadence sweeps
\* that start meanwhile (at time 0 no follow-up is due: they reload the store
\* and write it back).
InitReplies ==
  /\ InitCommon
  /\ cfg \in {OwnerAuto, OwnerImap}

NextReplies == GmNext \/ FuStart
SpecReplies == InitReplies /\ [][NextReplies]_vars

\* Cadence sweeps and mailbox checks; generateAIResponse yields a direct
\* reply, which ingestion sends at once (the owner is in auto-mode).
NextCount ==
  \/ Tick
  \/ FuNext
  \/ \E l \in Leads : Arrive(l)
  \/ \E auto \in BOOLEAN : GmStart("gm1", auto)
  \/ \E c \in Intents : GmAnalyzed("gm1", c)
  \/ GmGenerated("gm1", TRUE, FALSE)
  \/ GmSendDone("gm1", TRUE)
SpecCount == Init /\ [][NextCount]_vars

\* A lead classified NOT_NOW by ingestion that has received n cadence
\* follow-ups so far, the last one (or the initial email) at time 0.
FollowedUpLead(n) ==
  [ContactedLead EXCEPT !.ai_intent = "NOT_NOW", !.status = "analyzed",
                        !.follow_up_count = n]

\* The store of an owner whose NOT_NOW leads are in the middle of the cadence:
\* each lead has had none, some or all of the follow-ups of its rule.
InitFollowedUp ==
  /\ now = 0
  /\ \E n \in [Leads -> 0..FollowUpRules["NOT_NOW"].max_attempts] :
       /\ disk = [EmptyStore EXCEPT
                    !.leads = [l \in Leads |-> FollowedUpLead(n[l])],
                    !.history = n]
       /\ fuSent = n
  /\ mem = disk
  /\ views = [t \in TaskIds |-> IdleView]
  /\ cfg = OwnerAuto
  /\ seqProcessing = FALSE
  /\ sq = [i \in SqIds |-> SqIdle]
  /\ en = EnIdle
  /\ fu = FuIdle
  /\ sqCalls = 0
  /\ fuCalls = 0
  /\ enrolls = 0
  /\ outbox = [k \in OutboxKeys |-> 0]
  /\ fuDrafted = [l \in Leads |-> 0]
  /\ inbox = <<>>
  /\ gm = [g \in GmIds |-> GmIdle]
  /\ gmCalls = 0
  /\ autoReplies = <<>>
  /\ ds = DsIdle
  /\ approved = [l \in Leads |-> 0]
  /\ hs = HsIdle
  /\ fuSentAt = [l \in Leads |-> NoTime]
  /\ call = NoCall

\* Cadence sweeps alone, over leads in the middle of the cadence.
NextAttempts == Tick \/ FuNext
SpecAttempts == InitFollowedUp /\ [][NextAttempts]_vars

\* An owner who approves every message: auto-mode off.
OwnerManual == [OwnerAuto EXCEPT !.auto_mode_enabled = FALSE]

\* Contacted leads of an owner in either mode.
InitModes ==
  /\ InitCommon
  /\ cfg \in {OwnerAuto, OwnerManual}

\* Cadence sweeps with the owner pausing and resuming follow-ups of leads.
NextPause == Tick \/ FuNext \/ PauseNext
SpecPause == InitModes /\ [][NextPause]_vars

\* Cadence sweeps with the owner approving pending drafts.
NextApprove == Tick \/ FuNext \/ DsNext
SpecApprove == InitModes /\ [][NextApprove]_vars

\* The owner's mode settings: users.auto_mode_enabled and
\* users.auto_mode_include_objections.
OwnerConfigs ==
  {[OwnerAuto EXCEPT !.auto_mode_enabled = a, !.auto_mode_include_objections = o] :
     a \in BOOLEAN, o \in BOOLEAN}

\* A contacted lead whose reply ingestion classified as c; never classified
\* for c = null.
ClassifiedLead(c) == IF c = NoIntent THEN ContactedLead ELSE Classify(ContactedLead, c)

\* Cadence sweeps over leads of every intent, for every mode setting.
InitDispatch ==
  /\ now = 0
  /\ \E c \in [Leads -> Intents \cup {NoIntent}] :
       disk = [EmptyStore EXCEPT !.leads = [l \in Leads |-> ClassifiedLead(c[l])]]
  /\ mem = disk
  /\ views = [t \in TaskIds |-> IdleView]
  /\ cfg \in OwnerConfigs
  /\ seqProcessing = FALSE
  /\ sq = [i \in SqIds |-> SqIdle]
  /\ en = EnIdle
  /\ fu = FuIdle
  /\ sqCalls = 0
  /\ fuCalls = 0
  /\ enrolls = 0
  /\ outbox = [k \in OutboxKeys |-> 0]
  /\ fuSent = [l \in Leads |-> 0]
  /\ fuDrafted = [l \in Leads |-> 0]
  /\ inbox = <<>>
  /\ gm = [g \in GmIds |-> GmIdle]
  /\ gmCalls = 0
  /\ autoReplies = <<>>
  /\ ds = DsIdle
  /\ approved = [l \in Leads |-> 0]
  /\ hs = HsIdle
  /\ fuSentAt = [l \in Leads |-> NoTime]
  /\ call = NoCall

NextDispatch == Tick \/ FuNext
SpecDispatch == InitDispatch /\ [][NextDispatch]_vars

\* Sequence sweeps and cadence sweeps, with enrollment requests into the
\* one-step sequence, whose only step the scheduler sends after its delay.
NextHandoff ==
  \/ Tick
  \/ SqNext
  \/ \E ids \in (SUBSET Leads) \ {{}} : EnrollStart(2, ids)
  \/ FuNext
SpecHandoff == Init /\ [][NextHandoff]_vars

\* The store after POST /api/sequences/2/enroll for lead 1 at time 0: the
\* only step has a delay, the scheduler will send it.
DelayedStore ==
  [EmptyStore EXCEPT !.leads[1] = [ContactedLead EXCEPT !.enrolled_sequence_id = 2,
                                                        !.sequence_last_sent = 0]]

InitDelayed ==
  /\ now = 0
  /\ disk = DelayedStore
  /\ mem = DelayedStore
  /\ views = [t \in TaskIds |-> IdleView]
  /\ cfg = OwnerAuto
  /\ seqProcessing = FALSE
  /\ sq = [i \in SqIds |-> SqIdle]
  /\ en = EnIdle
  /\ fu = FuIdle
  /\ sqCalls = 0
  /\ fuCalls = 0
  /\ enrolls = 0
  /\ outbox = [k \in OutboxKeys |-> 0]
  /\ fuSent = [l \in Leads |-> 0]
  /\ fuDrafted = [l \in Leads |-> 0]
  /\ inbox = <<>>
  /\ gm = [g \in GmIds |-> GmIdle]
  /\ gmCalls = 0
  /\ autoReplies = <<>>
  /\ ds = DsIdle
  /\ approved = [l \in Leads |-> 0]
  /\ hs = HsIdle
  /\ fuSentAt = [l \in Leads |-> NoTime]
  /\ call = NoCall

\* Sequence sweeps and further enrollment requests over that store.
SpecRetire == InitDelayed /\ [][NextEnroll]_vars

\* Mailbox checks whose classifier call may fail, with cadence sweeps that
\* start meanwhile; generateAIResponse answers with a direct reply or, when
\* its call fails, with its template: a body without clarification_needed.
NextClassify ==
  \/ \E l \in Leads : Arrive(l)
  \/ \E auto \in BOOLEAN : GmStart("gm1", auto)
  \/ \E raw \in RawAnswers, kw \in Intents : GmAnalyzed("gm1", AnalyzeReplyWithAI(raw, kw))
  \/ GmGenerated("gm1", TRUE, FALSE)
  \/ \E ok \in BOOLEAN : GmSendDone("gm1", ok)
  \/ FuStart
SpecClassify == InitReplies /\ [][NextClassify]_vars

\* generateAIResponse called once with every answer of the text-generation
\* call, every intent, with and without product knowledge, in either mode.
NextGenerate ==
  \/ \E ans \in AiAnswers, intent \in Intents, hp, auto \in BOOLEAN :
       GenerateCall(ans, intent, hp, auto)
  \/ GenerateReturn
SpecGenerate == Init /\ [][NextGenerate]_vars

\* Mailbox checks for an owner in auto-mode, whose replies are direct or
\* holding ones and are sent or, when sendEmail throws, kept as pending
\* drafts; and the owner's own sends and knowledge-base updates. Lead 1 is
\* the one that writes in.
NextHuman ==
  \/ Arrive(1)
  \/ GmStart("gm1", FALSE)
  \/ GmAnalyzed("gm1", "INTERESTED")
  \/ \E clar \in BOOLEAN : GmGenerated("gm1", TRUE, clar)
  \/ \E ok \in BOOLEAN : GmSendDone("gm1", ok)
  \/ HsNext
  \/ DsNext
  \/ KnowledgeUpdate
SpecHuman == Init /\ [][NextHuman]_vars

\* Mailbox checks for an owner with auto-mode on or off, while the owner
\* switches automatic sending for single leads on and off.
NextManual ==
  \/ \E l \in Leads : Arrive(l)
  \/ GmStart("gm1", FALSE)
  \/ GmAnalyzed("gm1", "INTERESTED")
  \/ \E clar \in BOOLEAN : GmGenerated("gm1", TRUE, clar)
  \/ \E ok \in BOOLEAN : GmSendDone("gm1", ok)
  \/ AutoSendNext
SpecManual == InitModes /\ [][NextManual]_vars

\* A lead classified c that has received every follow-up its rule allows,
\* the last one at time 0.
ExhaustedLead(c) ==
  [ClassifiedLead(c) EXCEPT !.follow_up_count = FollowUpRules[c].max_attempts]

\* The store of an owner whose INTERESTED and OBJECTION leads, the intents
\* whose rule ends in review, have had all their follow-ups.
InitExhausted ==
  /\ now = 0
  /\ \E c \in [Leads -> {"INTERESTED", "OBJECTION"}] :
       disk = [EmptyStore EXCEPT
                 !.leads = [l \in Leads |-> ExhaustedLead(c[l])],
                 !.history = [l \in Leads |-> FollowUpRules[c[l]].max_attempts]]
  /\ mem = disk
  /\ views = [t \in TaskIds |-> IdleView]
  /\ cfg \in OwnerConfigs
  /\ seqProcessing = FALSE
  /\ sq = [i \in SqIds |-> SqIdle]
  /\ en = EnIdle
  /\ fu = FuIdle
  /\ sqCalls = 0
  /\ fuCalls = 0
  /\ enrolls = 0
  /\ outbox = [k \in OutboxKeys |-> 0]
  /\ fuSent = [l \in Leads |-> 0]
  /\ fuDrafted = [l \in Leads |-> 0]
  /\ inbox = <<>>
  /\ gm = [g \in GmIds |-> GmIdle]
  /\ gmCalls = 0
  /\ autoReplies = <<>>
  /\ ds = DsIdle
  /\ approved = [l \in Leads |-> 0]
  /\ hs = HsIdle
  /\ fuSentAt = [l \in Leads |-> NoTime]
  /\ call = NoCall

\* Cadence sweeps over leads at the end of their rule.
NextExhausted == Tick \/ FuNext
SpecExhausted == InitExhausted /\ [][NextExhausted]_vars

\* Mailbox checks started by the periodic job and by the owner, as they come.
NextOverlap ==
  \/ \E l \in Leads : Arrive(l)
  \/ \E g \in GmIds, auto \in BOOLEAN : GmStart(g, auto)
  \/ \E g \in GmIds : GmAnalyzed(g, "INTERESTED")
  \/ \E g \in GmIds : GmGenerated(g, TRUE, FALSE)
  \/ \E g \in GmIds, ok \in BOOLEAN : GmSendDone(g, ok)
SpecOverlap == Init /\ [][NextOverlap]_vars

\* The A/B record of one intent of the owner: follow-ups generated for the
\* leads with every outcome of the generation call, and positive replies.
NextAb ==
  \/ \E l \in Leads, ans \in FollowUpAnswers : AbFollowUp(l, ans)
  \/ \E v \in {"A", "B"} : AbReply(v)
SpecAb == Init /\ [][NextAb]_vars

\* The winning_emails list from the empty store on, as replies of the
\* owner's leads and of another user's leads are recorded.
NextWinning == \E u \in Users : WinningRecord(u)
SpecWinning == Init /\ [][NextWinning]_vars

\* The owner's email_settings entry and the settings objects that sweeps
\* hold across their awaits. token_invalid is the flag of the entry in
\* db.data; held[t] is the object that sweep t took from
\* db.data.email_settings: "live" while it is the entry of the current
\* db.data, "stale" / "stale_invalid" once a db.read() has replaced db.data
\* (the object then keeps the flag it had); ev is the step just taken.
Holders == {"fu", "gm"}

NoSettings == [t \in Holders |-> "none"]

TokenInit == [fn |-> "token", token_invalid |-> FALSE, held |-> NoSettings,
              ev |-> [op |-> "none", contacted |-> FALSE]]

TokenTracked == call.fn = "token"

\* db.read(): db.data is replaced, the objects taken from it before are
\* no longer the stored ones.
DetachSettings(held, flag) ==
  [t \in Holders |-> IF held[t] = "live"
                       THEN (IF flag THEN "stale_invalid" ELSE "stale")
                       ELSE held[t]]

\* settings.token_invalid as read from the object that sweep t holds.
HeldInvalid(c, t) ==
  \/ c.held[t] = "live" /\ c.token_invalid
  \/ c.held[t] = "stale_invalid"

\* sendEmail's guard: throws before the transport is used when the settings
\* object passed in carries token_invalid.
SendEmailContacts(invalid) == ~invalid

\* refreshAllGmailTokens' guard: an entry with token_invalid is skipped.
RefreshSkips(invalid) == invalid

RefreshAttempts(invalid) == ~RefreshSkips(invalid)

TokenStart ==
  /\ call = NoCall
  /\ call' = TokenInit
  /\ UNCHANGED <<now, disk, mem, views, cfg, seqProcessing, sq, en, fu, sqCalls, fuCalls,
                 enrolls, outbox, fuSent, fuDrafted, inbox, gm, gmCalls, autoReplies, ds,
                 approved, hs, fuSentAt>>

\* processFollowUps and checkGmailAutomatic: db.read(), then the settings
\* entry is taken for the rest of the sweep.
TokenHold(t) ==
  /\ TokenTracked /\ call.held[t] = "none"
  /\ call' = [call EXCEPT !.held = [DetachSettings(call.held, call.token_invalid)
                                      EXCEPT ![t] = "live"],
                          !.ev = [op |-> "hold", contacted |-> FALSE]]
  /\ UNCHANGED <<now, disk, mem, views, cfg, seqProcessing, sq, en, fu, sqCalls, fuCalls,
                 enrolls, outbox, fuSent, fuDrafted, inbox, gm, gmCalls, autoReplies, ds,
                 approved, hs, fuSentAt>>

\* A db.read() inside a sweep or a handler (generateFollowUpEmail,
\* generateAIResponse).
TokenDbRead ==
  /\ TokenTracked
  /\ call' = [call EXCEPT !.held = DetachSettings(call.held, call.token_invalid),
                          !.ev = [op |-> "read", contacted |-> FALSE]]
  /\ UNCHANGED <<now, disk, mem, views, cfg, seqProcessing, sq, en, fu, sqCalls, fuCalls,
                 enrolls, outbox, fuSent, fuDrafted, inbox, gm, gmCalls, autoReplies, ds,
                 approved, hs, fuSentAt>>

\* Sweep t calls sendEmail(settings, ...) with the object it holds. When the
\* access token had expired and was refreshed, sendEmail reads the store.
TokenSend(t, refreshed) ==
  /\ TokenTracked /\ call.held[t] # "none"
  /\ LET contacts == SendEmailContacts(HeldInvalid(call, t))
     IN  call' = [call EXCEPT
                    !.held = IF contacts /\ refreshed
                               THEN DetachSettings(call.held, call.token_invalid)
                               ELSE call.held,
                    !.ev = [op |-> "sendEmail", contacted |-> contacts]]
  /\ UNCHANGED <<now, disk, mem, views, cfg, seqProcessing, sq, en, fu, sqCalls, fuCalls,
                 enrolls, outbox, fuSent, fuDrafted, inbox, gm, gmCalls, autoReplies, ds,
                 approved, hs, fuSentAt>>

\* A request handler: db.read(), settings taken from db.data, sendEmail.
TokenSendFresh ==
  /\ TokenTracked
  /\ call' = [call EXCEPT !.held = DetachSettings(call.held, call.token_invalid),
                          !.ev = [op |-> "sendEmail",
                                  contacted |-> SendEmailContacts(call.token_invalid)]]
  /\ UNCHANGED <<now, disk, mem, views, cfg, seqProcessing, sq, en, fu, sqCalls, fuCalls,
                 enrolls, outbox, fuSent, fuDrafted, inbox, gm, gmCalls, autoReplies, ds,
                 approved, hs, fuSentAt>>

\* The sweep ends.
TokenRelease(t) ==
  /\ TokenTracked /\ call.held[t] # "none"
  /\ call' = [call EXCEPT !.held[t] = "none",
                          !.ev = [op |-> "release", contacted |-> FALSE]]
  /\ UNCHANGED <<now, disk, mem, views, cfg, seqProcessing, sq, en, fu, sqCalls, fuCalls,
                 enrolls, outbox, fuSent, fuDrafted, inbox, gm, gmCalls, autoReplies, ds,
                 approved, hs, fuSentAt>>

\* refreshAllGmailTokens for the owner's entry; res is what the token
\* endpoint answers when it is asked ("fresh": the token is not near expiry
\* and no request is made).
RefreshAllGmailTokens(res) ==
  /\ TokenTracked
  /\ LET attempts == RefreshAttempts(call.token_invalid) /\ res # "fresh"
     IN  call' = [call EXCEPT
                    !.held = DetachSettings(call.held, call.token_invalid),
                    !.token_invalid = @ \/ (attempts /\ res = "invalid_grant"),
                    !.ev = [op |-> "refresh", contacted |-> attempts]]
  /\ UNCHANGED <<now, disk, mem, views, cfg, seqProcessing, sq, en, fu, sqCalls, fuCalls,
                 enrolls, outbox, fuSent, fuDrafted, inbox, gm, gmCalls, autoReplies, ds,
                 approved, hs, fuSentAt>>

\* GET /api/auth/google/callback: the user reconnects.
OAuthCallback ==
  /\ TokenTracked
  /\ call' = [call EXCEPT !.held = DetachSettings(call.held, call.token_invalid),
                          !.token_invalid = FALSE,
                          !.ev = [op |-> "callback", contacted |-> FALSE]]
  /\ UNCHANGED <<now, disk, mem, views, cfg, seqProcessing, sq, en, fu, sqCalls, fuCalls,
                 enrolls, outbox, fuSent, fuDrafted, inbox, gm, gmCalls, autoReplies, ds,
                 approved, hs, fuSentAt>>

NextToken ==
  \/ TokenStart
  \/ \E t \in Holders : TokenHold(t)
  \/ TokenDbRead
  \/ \E t \in Holders, refreshed \in BOOLEAN : TokenSend(t, refreshed)
  \/ TokenSendFresh
  \/ \E t \in Holders : TokenRelease(t)
  \/ \E res \in {"fresh", "ok", "temporary", "invalid_grant"} : RefreshAllGmailTokens(res)
  \/ OAuthCallback
SpecToken == Init /\ [][NextToken]_vars

\* Sequence sweeps and periodic mailbox checks, with every awaited call
\* returning or throwing in the end.
SqReturns == \E i \in SqIds, ok \in BOOLEAN : SqSendDone(i, ok)
SqRejects == \E i \in SqIds : SqReadThrows(i)
GmAnswered == GmAnalyzed("gm1", "INTERESTED")
GmDrafted == GmGenerated("gm1", TRUE, FALSE)
GmReturns == \E ok \in BOOLEAN : GmSendDone("gm1", ok)
NextLive ==
  \/ Tick
  \/ SqNext
  \/ \E i \in SqIds : SqReadStart(i)
  \/ SqRejects
  \/ Arrive(1)
  \/ GmStart("gm1", TRUE)
  \/ GmAnswered
  \/ GmDrafted
  \/ GmReturns
SpecLive ==
  /\ InitEnrolled
  /\ [][NextLive]_vars
  /\ WF_vars(SqReturns) /\ WF_vars(SqRejects)
  /\ WF_vars(GmAnswered) /\ WF_vars(GmDrafted) /\ WF_vars(GmReturns)

\* Enrollments and sequence sweeps for an owner with a Gmail account
\* connected and for one without.
InitConnect ==
  /\ InitCommon
  /\ cfg \in {OwnerAuto, OwnerImap}
SpecConnect == InitConnect /\ [][NextEnroll]_vars

\* Enrolled leads whose sequence the owner stops and who are enrolled again.
NextReenroll ==
  \/ Tick
  \/ SqNext
  \/ EnrollStart(1, {1})
  \/ \E ok \in BOOLEAN : EnrollSendDone(ok)
  \/ StopSequence(1)
SpecReenroll == InitEnrolled /\ [][NextReenroll]_vars

\* Cadence sweeps in either mode, drafts approved and sent by the owner, and
\* follow-ups paused and resumed.
NextFrame == Tick \/ FuNext \/ DsNext \/ PauseNext
SpecFrame == InitModes /\ [][NextFrame]_vars

\* ------------------------------------------------------------------- claims
\* C1: in every reachable state every enrolled lead's sequence_current_step is
\* at most the step count of its sequence, and a cursor equal to the step
\* count comes with sequence_completed = true.
C1_CursorWithinSteps ==
  \A l \in Leads :
    LET r == disk.leads[l] IN
    r.enrolled_sequence_id # 0 =>
      /\ r.sequence_current_step <= StepCount(r.enrolled_sequence_id)
      /\ (r.sequence_current_step = StepCount(r.enrolled_sequence_id)
            => r.sequence_completed)

\* processFollowUps hands a follow-up for lead l to sendEmail.
FuCallsSend(l) == fu.pc = "generating" /\ fu.lead = l /\ fu'.pc = "sending"

\* processFollowUps pushes a follow-up draft for lead l.
FuCreatesDraft(l) == fuDrafted'[l] > fuDrafted[l]

\* C2: whenever processFollowUps sends a follow-up to a lead or creates a
\* follow-up draft for it, the lead is at that moment not claimed by a
\* sequence (enrolled, not completed, not paused) in the store.
C2_CadenceYieldsToSequence ==
  [][\A l \in Leads :
       (FuCallsSend(l) \/ FuCreatesDraft(l)) => ~ClaimedBySequence(mem.leads[l])]_vars

\* C3: each step of a sequence is accepted by the transport at most once per
\* lead and enrollment.
C3_StepSentAtMostOnce == \A k \in OutboxKeys : outbox[k] <= 1

\* Invocations of processSequenceSteps that are past the guard.
SqRunning == {i \in SqIds : sq[i].pc = "sending"}

\* An invocation of processSequenceSteps starts while another is in flight.
SqStartsWhileBusy == sqCalls' = sqCalls + 1 /\ SqRunning # {}

\* C4: at most one processSequenceSteps execution is past its guard; an
\* invocation that starts while another is in flight returns without touching
\* the store and leaves no execution behind it.
C4_SingleSweep ==
  /\ [](Cardinality(SqRunning) <= 1)
  /\ [][SqStartsWhileBusy =>
          /\ mem' = mem /\ disk' = disk /\ views' = views /\ outbox' = outbox
          /\ seqProcessing' = seqProcessing
          /\ \A i \in SqIds : sq'[i].pc = "sending" <=> sq[i].pc = "sending"
          /\ \A i \in SqIds : sq'[i] # sq[i] => sq'[i] = [SqIdle EXCEPT !.pc = "skipped"]]_vars

\* A second invocation was skipped while the first one is suspended in sendEmail.
C4_Witness == \E i, j \in SqIds : sq[i].pc = "sending" /\ sq[j].pc = "skipped"

\* Ingestion records the reply of lead l: the email_threads entry is written.
GmRecordsReply(l) ==
  gm["gm1"].pc = "analyzing" /\ gm["gm1"].lead = l /\ Len(disk'.threads) > Len(disk.threads)

\* The transport accepts a sequence step for lead l.
SqSendsStep(l) == \E k \in OutboxKeys : k[1] = l /\ outbox'[k] > outbox[k]

\* C5: once ingestion has recorded a reply of a lead, the stored lead is no
\* longer in an unpaused, uncompleted sequence (sequence_paused = true), and
\* processSequenceSteps sends no step to a lead whose stored sequence_paused is
\* set, in every interleaving of mailbox checks and sequence sweeps.
C5_ReplyPausesSequence ==
  [][\A l \in Leads :
       /\ GmRecordsReply(l) => ~ClaimedBySequence(disk'.leads[l])
       /\ SqSendsStep(l) => ~disk.leads[l].sequence_paused]_vars

C7_IntentChangeResetsCount ==
  [][\A l \in Leads :
       GoverningIntent(disk'.leads[l]) # GoverningIntent(disk.leads[l])
         => disk'.leads[l].follow_up_count = 0]_vars

\* C8: under auto-mode ingestion does not send a lead two holding replies
\* (clarification needed) without a normal automatic reply in between.
C8_OneHoldingReply ==
  \A i, j \in DOMAIN autoReplies :
    (/\ i < j
     /\ autoReplies[i].lead = autoReplies[j].lead
     /\ autoReplies[i].clar /\ autoReplies[j].clar)
    => \E k \in (i + 1)..(j - 1) :
         autoReplies[k].lead = autoReplies[i].lead /\ ~autoReplies[k].clar

\* C9: no inbound message has two email_threads entries, however often the
\* mailbox check meets it.
C9_NoSecondThread ==
  \A i, j \in DOMAIN disk.threads :
    i # j => disk.threads[i].msg # disk.threads[j].msg

\* C10: with auto-mode on and auto_mode_include_objections off, no reply that
\* ingestion sent automatically answers a message classified OBJECTION.
C10_NoAutoReplyToObjection ==
  (cfg.auto_mode_enabled /\ ~cfg.auto_mode_include_objections)
    => \A i \in DOMAIN autoReplies : autoReplies[i].intent # "OBJECTION"

\* C11: a lead that stays NOT_NOW, whose follow_up_count started at 0 and to
\* which after_max has not been applied (it would reclassify the lead), has
\* received at most max_attempts automatic follow-ups from processFollowUps,
\* however many leads are due in one sweep.
C11_AtMostMaxAttempts ==
  \A l \in Leads :
    disk.leads[l].ai_intent = "NOT_NOW"
      => fuSent[l] <= FollowUpRules["NOT_NOW"].max_attempts

\* A step of processFollowUps that runs the loop over userLeads: from the
\* start of the sweep, or on from the lead whose follow-up was just handled.
FuRunsLoop ==
  \/ fu.pc = "idle" /\ fuCalls' = fuCalls + 1
  \/ fu.pc = "generating" /\ fu' # fu /\ fu'.pc # "sending"
  \/ fu.pc = "sending" /\ fu' # fu

\* The lead objects and the rest of the list that this loop works on.
FuLoopView == IF fu.pc = "idle" THEN Attach(views, mem, "fu")["fu"] ELSE views["fu"]
FuLoopStore == IF fu.pc = "idle" THEN disk ELSE mem
FuLoopQueue == IF fu.pc = "idle" THEN LeadsFrom(1, Leads) ELSE fu.q

\* The due leads that this loop finds at max_attempts.
FuEvaluatedAtMax ==
  IF FuRunsLoop THEN FuLoop(FuLoopStore, FuLoopView, FuLoopQueue).maxed ELSE {}

\* after_max of the rule of intent c is in effect on lead record r.
AfterMaxApplied(c, r) ==
  LET am == FollowUpRules[c].after_max IN
  /\ r.follow_up_count = 0
  /\ IF am \in {"review", "closed_by_system"} THEN r.status = am ELSE r.ai_intent = am

\* C12: when processFollowUps evaluates a due lead whose follow_up_count has
\* reached max_attempts it hands nothing to sendEmail and creates no draft for
\* it, and when the sweep next suspends or ends after_max is in effect on the
\* lead in db.data: status review or closed_by_system, or the after_max
\* intent, with follow_up_count 0.
C12_AfterMaxApplied ==
  [][\A l \in FuEvaluatedAtMax :
       /\ ~FuCallsSend(l) /\ ~FuCreatesDraft(l) /\ fuSent'[l] = fuSent[l]
       /\ AfterMaxApplied(GoverningIntent(Ref(FuLoopStore, FuLoopView, l)),
                          mem'.leads[l])]_vars

\* C13: the schedulers leave a lead alone whose status in db.data is dead,
\* closed_by_system or converted: processFollowUps hands no follow-up for it
\* to sendEmail, creates no draft for it and does not take it through
\* after_max (which changes status or intent), and processSequenceSteps
\* sends it no step.
C13_TerminalLeadsUntouched ==
  [][\A l \in Leads :
       mem.leads[l].status \in {"dead", "closed_by_system", "converted"} =>
         /\ ~FuCallsSend(l) /\ ~FuCreatesDraft(l)
         /\ l \notin FuEvaluatedAtMax
         /\ ~SqSendsStep(l)]_vars

\* C14: processFollowUps hands no follow-up to sendEmail and creates no
\* follow-up draft for a lead whose follow_up_paused is true in the store at
\* that moment, whenever the pause request arrived, also while the follow-up
\* was being generated.
C14_NoFollowUpWhilePaused ==
  [][\A l \in Leads :
       (FuCallsSend(l) \/ FuCreatesDraft(l)) => ~disk.leads[l].follow_up_paused]_vars

\* C15: whenever neither processFollowUps nor a draft approval is in flight,
\* the stored follow_up_count of a lead is the number of cadence follow-ups
\* actually sent to it, by processFollowUps or by approval of a follow-up
\* draft; a draft that is only created does not count. (Here no lead reaches
\* max_attempts and no reply arrives, so the count is never reset.)
C15_CountEqualsSends ==
  (fu.pc = "idle" /\ ds.pc = "idle") =>
    \A l \in Leads : disk.leads[l].follow_up_count = fuSent[l] + approved[l]

C17_WaitsAfterLastStep ==
  [][\A l \in Leads :
       LET r == mem.leads[l] IN
       ((FuCallsSend(l) \/ FuCreatesDraft(l))
          /\ r.enrolled_sequence_id # 0 /\ r.sequence_completed
          /\ r.sequence_last_sent # NoTime)
         => now - r.sequence_last_sent >= FollowUpRules[GoverningIntent(r)].delay]_vars

\* The transport accepts the last step of sequence s for lead l.
SqSendsLastStep(l, s) ==
  outbox'[<<l, s, StepCount(s)>>] > outbox[<<l, s, StepCount(s)>>]

\* A step of processSequenceSteps: its start, or its return from sendEmail.
SqStep ==
  \/ sqCalls' = sqCalls + 1
  \/ \E i \in SqIds : sq[i].pc = "sending" /\ sq'[i] # sq[i]

\* db.data as that step finds it: freshly read at the start of a sweep.
SqStepStore == IF sqCalls' = sqCalls + 1 THEN disk ELSE mem

\* The leads of db.data m enrolled in sequence s, and whether all of them
\* (at least one) are completed.
EnrolledIn(m, s) == {x \in Leads : m.leads[x].enrolled_sequence_id = s}
AllCompleted(m, s) ==
  EnrolledIn(m, s) # {} /\ \A x \in EnrolledIn(m, s) : m.leads[x].sequence_completed

\* C18: when the scheduler has sent the last step of a sequence to a lead the
\* lead's sequence_completed is true in db.data; if the lead is enrolled in
\* that sequence and every lead enrolled in it is then completed, the
\* sequence is inactive; and the scheduler turns is_active off only for a
\* sequence all of whose enrolled leads are completed.
C18_DeactivateWhenAllCompleted ==
  [][/\ \A l \in Leads, s \in Seqs :
          SqSendsLastStep(l, s) =>
            /\ mem'.leads[l].sequence_completed
            /\ (mem'.leads[l].enrolled_sequence_id = s /\ AllCompleted(mem', s))
                 => ~mem'.active[s]
     /\ \A s \in Seqs :
          (SqStep /\ SqStepStore.active[s] /\ ~mem'.active[s]) => AllCompleted(mem', s)]_vars

\* sendEmail threw inside sweep i of processSequenceSteps, or inside
\* processFollowUps: the sweep moved on and the transport accepted nothing.
SqSendFails(i) == sq[i].pc = "sending" /\ sq'[i] # sq[i] /\ outbox' = outbox
FuSendFails == fu.pc = "sending" /\ fu' # fu /\ fuSent' = fuSent

\* The scheduling fields of a lead record.
SchedulingFields(r) ==
  <<r.sequence_current_step, r.sequence_last_sent, r.sequence_completed,
    r.follow_up_count, r.last_email_sent_date>>

\* Store m shows lead l as db.data (a) or db.json (b) showed it: the same
\* scheduling fields and the same sent records.
SameSchedule(m, a, b, l) ==
  \/ /\ SchedulingFields(m.leads[l]) = SchedulingFields(a.leads[l])
     /\ {e \in m.inter : e[1] = l} = {e \in a.inter : e[1] = l}
     /\ m.history[l] = a.history[l]
  \/ /\ SchedulingFields(m.leads[l]) = SchedulingFields(b.leads[l])
     /\ {e \in m.inter : e[1] = l} = {e \in b.inter : e[1] = l}
     /\ m.history[l] = b.history[l]

\* The leads of list q that come before x.
Before(q, x) == {q[j] : j \in {j \in 1..Len(q) : \A h \in 1..j : q[h] # x}}

\* The loop of processSequenceSteps would hand the step of lead x to sendEmail.
SqWouldSend(m, vw, x, now0) ==
  LET r == Ref(m, vw, x)
      s == r.enrolled_sequence_id
      k == r.sequence_current_step
  IN  m.active[s] /\ k < StepCount(s) /\ StepDue(r, s, k, now0) /\ cfg.gmail

\* The loop of processFollowUps would generate a follow-up for lead x.
FuWouldGenerate(m, vw, x) ==
  LET r == Ref(m, vw, x) IN
  /\ ~FuSkips(r) /\ FuDue(r)
  /\ r.follow_up_count < FollowUpRules[GoverningIntent(r)].max_attempts
  /\ ~m.leads[x].follow_up_paused

\* C19: when sendEmail throws for a lead inside a sweep of
\* processSequenceSteps or processFollowUps, the lead's scheduling fields and
\* sent records are afterwards those that db.data or db.json held before, in
\* db.data and in db.json alike, and the sweep goes on through the rest of its
\* list: it stops at the first remaining lead that is due (sendEmail for a
\* step, generateFollowUpEmail for a follow-up) and ends only when none is.
C19_SendFailureIsolated ==
  [][/\ \A i \in SqIds :
          SqSendFails(i) =>
            LET l == sq[i].lead
                q == sq[i].q
                done == IF sq'[i].pc = "sending" THEN Before(q, sq'[i].lead)
                        ELSE {q[j] : j \in 1..Len(q)}
            IN  /\ SameSchedule(mem', mem, disk, l)
                /\ SameSchedule(disk', mem, disk, l)
                /\ sq'[i].pc = "sending" =>
                     /\ \E j \in 1..Len(q) : q[j] = sq'[i].lead
                     /\ SqWouldSend(mem', views[i], sq'[i].lead, sq[i].now0)
                /\ \A x \in done : ~SqWouldSend(mem', views[i], x, sq[i].now0)
     /\ FuSendFails =>
          LET l == fu.lead
              q == fu.q
              done == IF fu'.pc = "generating" THEN Before(q, fu'.lead)
                      ELSE {q[j] : j \in 1..Len(q)}
          IN  /\ SameSchedule(mem', mem, disk, l)
              /\ SameSchedule(disk', mem, disk, l)
              /\ fu'.pc \in {"generating", "idle"}
              /\ fu'.pc = "generating" =>
                   /\ \E j \in 1..Len(q) : q[j] = fu'.lead
                   /\ FuWouldGenerate(mem, views["fu"], fu'.lead)
              /\ \A x \in done : ~FuWouldGenerate(mem, views["fu"], x)]_vars

\* The first sweep is in sendEmail for lead 2 after sendEmail threw for lead 1.
C19_Witness ==
  /\ sqCalls = 1
  /\ \E i \in SqIds : sq[i].pc = "sending" /\ sq[i].lead = 2 /\ sq[i].idx = 1
  /\ mem.leads[1].sequence_current_step = 1
  /\ outbox[<<1, 1, 2>>] = 0
  /\ outbox[<<2, 1, 2>>] = 0

\* Ingestion dispatched its automatic reply to the message it is handling.
GmDispatchesReply == gm["gm1"].pc = "sending" /\ Len(autoReplies') > Len(autoReplies)

\* db.json d holds the email_threads entry of message msg.
ThreadStored(d, msg) == \E i \in DOMAIN d.threads : d.threads[i].msg = msg

\* C20: the effects of one inbound message reach db.json together. When the
\* handler stores the email_threads entry of a lead's message, the stored
\* lead carries the classification (ai_intent as the update rule gives it, and
\* sequence_paused on the Gmail path if it was in a running sequence); and
\* when the automatic reply to a message has been dispatched and the message's
\* email_threads entry is stored, the stored lead has status replied and the
\* clarification_count set after the dispatch (one more after a holding
\* reply, zero after a normal one).
C20_MessageEffectsTogether ==
  [][\A l \in Leads :
       /\ GmRecordsReply(l) =>
            LET r == Ref(mem, views["gm1"], l)
                c == disk'.threads[Len(disk'.threads)].ai_intent
            IN  /\ disk'.leads[l].ai_intent = Classify(r, c).ai_intent
                /\ cfg.gmail => ~ClaimedBySequence(disk'.leads[l])
       /\ (GmDispatchesReply /\ gm["gm1"].lead = l /\ ThreadStored(disk', gm["gm1"].msg)) =>
            /\ disk'.leads[l].status = "replied"
            /\ disk'.leads[l].clarification_count =
                 IF gm["gm1"].clar THEN Ref(mem, views["gm1"], l).clarification_count + 1 ELSE 0]_vars

\* lead.status = ai_intent === 'INTERESTED' ? 'interested' : (=== 'DEAD' ? 'dead' : 'analyzed')
StatusOf(i) == IF i = "INTERESTED" THEN "interested" ELSE IF i = "DEAD" THEN "dead" ELSE "analyzed"

\* C21: when ingestion has handled a message of a lead (its email_threads entry
\* is written), the stored lead's ai_intent is one of the five labels and its
\* status is the one derived from it, whether the classifier answered or
\* failed.
C21_AlwaysClassified ==
  [][\A l \in Leads :
       GmRecordsReply(l) =>
         /\ disk'.leads[l].ai_intent \in Intents
         /\ disk'.leads[l].status = StatusOf(disk'.leads[l].ai_intent)]_vars

\* C22: reply handling never hands an empty body to sendEmail, and whenever the
\* text-generation call yields an empty body (nothing, white space, or the
\* marker alone) the draft is the fixed holding message with
\* clarification_needed = true, whatever the intent.
C22_BlankBecomesHolding ==
  (call.fn = "generateAIResponse" /\ call.returned) =>
    /\ call.sent => call.draft \notin {"", "null"}
    /\ (call.ans \in {"blank", "flag_only"}
          /\ ~(~call.hp /\ call.intent \in {"INTERESTED", "OBJECTION"}))
         => (call.draft = "holding" /\ call.clarification_needed)

\* A send request of the owner for lead l comes back from sendEmail: the
\* initial email, a draft of a bulk send, a template, or an approved draft.
HumanSendReturns(l) ==
  \/ hs.pc = "sending" /\ hs.lead = l /\ hs' # hs
  \/ ds.pc = "sending" /\ ds.lead = l /\ ds' # ds

\* The owner's knowledge-base update: it leaves every handler where it is and
\* the mailbox untouched, and rewrites db.json from a fresh read.
KnowledgeUpdated ==
  /\ UNCHANGED <<hs, ds, gm, fu, sq, en, inbox>>
  /\ mem' = disk'
  /\ \A l \in Leads :
       disk'.leads[l] = [disk.leads[l] EXCEPT !.clarification_count = 0]
  /\ disk'.drafts = disk.drafts /\ disk'.threads = disk.threads

GmDecides == gm["gm1"].pc = "generating" /\ gm' # gm

\* C24: when ingestion decides on a generated reply while the owner's
\* auto_mode_enabled is false or the stored lead's auto_send_enabled is false,
\* it does not go on to sendEmail, and a pending draft for that message is in
\* the store.
C24_ManualModeDrafts ==
  [][\A l \in Leads :
       (GmDecides /\ gm["gm1"].lead = l
          /\ (~cfg.auto_mode_enabled \/ ~disk.leads[l].auto_send_enabled))
         => /\ gm'["gm1"].pc # "sending"
            /\ \E i \in DOMAIN disk'.drafts :
                 /\ disk'.drafts[i].lead = l /\ disk'.drafts[i].msg = gm["gm1"].msg
                 /\ disk'.drafts[i].status = "pending"]_vars

\* processFollowUps has just sent a cadence follow-up to lead l.
FuSends(l) == fu.pc = "sending" /\ fu.lead = l /\ fuSent'[l] = fuSent[l] + 1

\* C25: a cadence follow-up that processFollowUps sends to a lead comes at
\* least the delay of the lead's intent rule after the previous follow-up it
\* sent to that lead.
C25_FollowUpsSeparated ==
  [][\A l \in Leads :
       (FuSends(l) /\ fuSentAt[l] # NoTime)
         => now - fuSentAt[l] >= FollowUpRules[fu.intent].delay]_vars

\* The enrollment fields of a lead record.
EnrollFields(r) ==
  <<r.enrolled_sequence_id, r.sequence_current_step, r.sequence_last_sent,
    r.sequence_completed>>

\* The enrollment handler that sent step 1 writes the store and responds.
EnrollReturns == en.pc = "sending" /\ en'.pc = "idle"

\* An enrollment request has put lead l into a sequence whose first step has
\* a positive delay.
EnrollDelays(l) ==
  /\ en.pc = "idle" /\ enrolls' = enrolls + 1 /\ en'.pc = "idle"
  /\ disk'.leads[l] # disk.leads[l]
  /\ SeqSteps[disk'.leads[l].enrolled_sequence_id][1] > 0

\* C26: when an enrollment request returns, a lead it sent step 1 to has
\* sequence_current_step = 1, sequence_last_sent = last_email_sent_date (the
\* present time for the lead sent last) and sequence_completed exactly when the
\* sequence has one step; a lead whose send threw is reported failed with its
\* enrollment fields as they were; a lead enrolled behind a positive first
\* delay has had nothing sent, cursor 0, sequence_last_sent = now.
C26_EnrollmentOutcome ==
  [][\A l \in Leads :
       /\ (EnrollReturns /\ l \in en'.done)
            => LET r == disk'.leads[l]
               IN  /\ r.enrolled_sequence_id = en.seq
                   /\ r.sequence_current_step = 1
                   /\ r.sequence_last_sent = r.last_email_sent_date
                   /\ (l = en.lead => r.sequence_last_sent = now)
                   /\ r.sequence_completed = (StepCount(en.seq) = 1)
       /\ (EnrollReturns /\ l \in en'.failed)
            => EnrollFields(disk'.leads[l]) = EnrollFields(disk.leads[l])
       /\ EnrollDelays(l)
            => LET r == disk'.leads[l]
               IN  /\ r.sequence_current_step = 0
                   /\ r.sequence_last_sent = now
                   /\ ~r.sequence_completed
                   /\ \A k \in 1..2 : outbox'[<<l, r.enrolled_sequence_id, k>>] = 0]_vars

\* Sweep i hands the next step of a lead to sendEmail.
SqHandsOver(i) == sq'[i].pc = "sending" /\ sq'[i] # sq[i]

\* C27: when a sweep hands step k + 1 of a sequence to sendEmail for a lead
\* that the store has in that sequence with cursor k, the time is at least the
\* stored sequence_last_sent plus the delay of that step, counted in the
\* step's own unit.
C27_StepNotBeforeDelay ==
  [][\A i \in SqIds :
       SqHandsOver(i)
         => LET l == sq'[i].lead
                s == sq'[i].seq
                k == sq'[i].idx
                r == disk.leads[l]
            IN  (r.enrolled_sequence_id = s /\ r.sequence_current_step = k)
                  => now >= r.sequence_last_sent + StepDelay(s, k + 1)]_vars

\* Ingestion has just sent a substantive reply to lead l in auto-mode, or has
\* saved one as a pending draft in manual mode.
GmAnswers(l) ==
  /\ gm["gm1"].lead = l
  /\ \/ gm["gm1"].pc = "sending" /\ ~gm["gm1"].clar /\ autoReplies' # autoReplies
     \/ /\ gm["gm1"].pc = "generating"
        /\ Len(disk'.drafts) = Len(disk.drafts) + 1
        /\ LET d == disk'.drafts[Len(disk'.drafts)]
           IN  d.lead = l /\ d.status = "pending" /\ ~d.clarification_needed

\* C28: once ingestion has auto-sent a substantive reply for a lead, or saved
\* one as a draft in manual mode, none of the lead's earlier drafts that carry
\* needs_follow_up or clarification_needed is still pending in the store.
C28_StaleDraftsResolved ==
  [][\A l \in Leads :
       GmAnswers(l)
         => \A i \in 1..Len(disk.drafts) :
              (disk'.drafts[i].lead = l
                 /\ (disk'.drafts[i].needs_follow_up
                       \/ disk'.drafts[i].clarification_needed))
                => disk'.drafts[i].status # "pending"]_vars

\* A flagged draft was resolved by a later substantive reply to the same lead.
C28_Witness ==
  \E i, j \in DOMAIN disk.drafts :
    /\ i < j
    /\ disk.drafts[i].lead = disk.drafts[j].lead
    /\ disk.drafts[i].clarification_needed /\ disk.drafts[i].status = "resolved"
    /\ ~disk.drafts[j].clarification_needed /\ disk.drafts[j].kind = "reply"

\* processFollowUps hands a follow-up for lead l to sendEmail or stores it as
\* a draft.
FuFollowsUp(l) ==
  /\ fu.pc = "generating" /\ fu.lead = l
  /\ fu'.pc = "sending" \/ fuDrafted'[l] = fuDrafted[l] + 1

\* C29: processFollowUps neither sends a follow-up to a lead nor drafts one
\* for it while the lead's stored status is review.
C29_NoFollowUpInReview ==
  [][\A l \in Leads :
       FuFollowsUp(l) => disk.leads[l].status # "review"]_vars

\* The mailbox checks in progress.
GmRunning == {g \in GmIds : gm[g].pc # "idle"}

\* C30: at most one mailbox check of the user is in progress at any time,
\* whether started by checkGmailAutomatic or by POST /api/emails/check.
C30_SingleIngestionRun == Cardinality(GmRunning) <= 1

\* C31: the winner of an A/B record is null until both variants have at least
\* 10 sends; a step that sets it sets A exactly when A's reply rate is at
\* least B's; once set it does not change; and a follow-up generated while the
\* record has a winner is of the winner variant.
C31_WinnerDecidedOnce ==
  [][(AbTracked /\ call'.fn = "ab_results") =>
       /\ call'.rec.winner # NoWinner
            => /\ call'.rec.variant_a_sends >= WinnerMinSends
               /\ call'.rec.variant_b_sends >= WinnerMinSends
       /\ (call.rec.winner = NoWinner /\ call'.rec.winner # NoWinner)
            => (call'.rec.winner = "A" <=> RateAtLeast(call'.rec))
       /\ call.rec.winner # NoWinner => call'.rec.winner = call.rec.winner
       /\ (call.rec.winner # NoWinner /\ call'.rec # call.rec
             /\ call'.rec.variant_a_replies = call.rec.variant_a_replies
             /\ call'.rec.variant_b_replies = call.rec.variant_b_replies)
            => call'.variant = call.rec.winner]_vars

\* list without its element at position i.
Without(list, i) == SubSeq(list, 1, i - 1) \o SubSeq(list, i + 1, Len(list))

\* The position in list of the oldest winning email of user u.
OldestOf(list, u) ==
  CHOOSE i \in 1..Len(list) :
    list[i].user_id = u /\ \A j \in 1..(i - 1) : list[j].user_id # u

\* C32: no user has more than 50 winning emails stored, and recording one for
\* a user who has 50 removes that user's oldest entry and nothing else.
C32_WinningEmailsCapped ==
  [][(call.fn = "winning_emails" /\ call'.fn = "winning_emails") =>
       LET u == call'.user IN
       /\ \A x \in Users : Len(UserWinning(call'.list, x)) <= WinningCap
       /\ Len(UserWinning(call.list, u)) = WinningCap
            => SubSeq(call'.list, 1, Len(call'.list) - 1)
                 = Without(call.list, OldestOf(call.list, u))]_vars

\* C33: while the account's token_invalid flag is set, no sendEmail call and
\* no refreshAllGmailTokens run contacts the transport, and only the OAuth
\* callback clears the flag.
C33_InvalidTokenStopsAttempts ==
  [][(TokenTracked /\ call.token_invalid) =>
       /\ call'.ev.op \in {"sendEmail", "refresh"} => ~call'.ev.contacted
       /\ ~call'.token_invalid => call'.ev.op = "callback"]_vars

C35_SentMeansAccepted ==
  [][\A key \in OutboxKeys :
       (key \in mem'.inter /\ key \notin mem.inter) => outbox'[key] > 0]_vars

\* The step is a successful enrollment of lead l: by the branch without a
\* send, or by the return of sendEmail for l.
EnrolledNow(l) ==
  \/ enrolls' = enrolls + 1 /\ en'.pc = "idle" /\ mem'.leads[l] # disk.leads[l]
  \/ en.pc = "sending" /\ en.lead = l /\ l \in en'.done

\* C36: a lead just enrolled into a sequence of at least two steps is one
\* that the sequence sweep selects: enrolled, not completed, not paused.
C36_EnrollmentClaimsLead ==
  [][\A l \in Leads :
       (EnrolledNow(l) /\ StepCount(mem'.leads[l].enrolled_sequence_id) >= 2)
         => SeqEligible(mem'.leads[l])]_vars

\* The pending cadence follow-up drafts of lead l in store m.
PendingFollowUps(m, l) ==
  {i \in 1..Len(m.drafts) :
     /\ m.drafts[i].lead = l
     /\ m.drafts[i].kind = "follow_up"
     /\ m.drafts[i].status = "pending"}

\* C37: no lead has more than one pending cadence follow-up draft.
C37_OnePendingFollowUp ==
  \A l \in Leads : Cardinality(PendingFollowUps(mem, l)) <= 1

\* C38: when ingestion has auto-sent a reply to a lead, the stored lead has
\* the time of that send as its last_email_sent_date.
C38_AutoReplyResetsTimer ==
  [][Len(autoReplies') > Len(autoReplies) =>
       disk'.leads[autoReplies'[Len(autoReplies')].lead].last_email_sent_date = now]_vars

\* C39: a step that removes drafts from the store is a pause of one lead: it
\* removes that lead's pending drafts and no other draft, and changes no lead
\* field other than that lead's follow_up_paused.
C39_PauseRemovesOnlyPending ==
  [][Len(disk'.drafts) < Len(disk.drafts) =>
       \E l \in Leads :
         LET Kept(d) == d.lead # l \/ d.status # "pending" IN
         /\ disk'.drafts = SelectSeq(disk.drafts, Kept)
         /\ disk'.leads = [disk.leads EXCEPT ![l].follow_up_paused = TRUE]]_vars

====
